---- MODULE Spec2Model ----
(***************************************************************************)
(* Model of the static site generator timtimjnvr/blog: output-path         *)
(* resolution, reference rewriting, style resolution, the substitution     *)
(* and validation registries, and the site build orchestrator.             *)
(*                                                                         *)
(* Paths, hrefs and markup are TLA+ strings; Len, SubSeq and \o act on     *)
(* them character by character, so the Go string and path/filepath         *)
(* functions are modelled by what they compute.                            *)
(***************************************************************************)
EXTENDS Integers, Sequences, FiniteSets, TLC

(***************************************************************************)
(* strings package                                                         *)
(***************************************************************************)

\* the Go slice s[m-1:n] clipped to the string: 1-based, both ends included
Slice(s, m, n) ==
    IF m > n \/ m > Len(s) THEN ""
    ELSE SubSeq(s, m, IF n > Len(s) THEN Len(s) ELSE n)

\* strings.HasPrefix
HasPrefix(s, p) == Len(s) >= Len(p) /\ SubSeq(s, 1, Len(p)) = p

\* strings.HasSuffix
HasSuffix(s, p) == Len(s) >= Len(p) /\ SubSeq(s, Len(s) - Len(p) + 1, Len(s)) = p

\* strings.TrimPrefix
TrimPrefix(s, p) == IF HasPrefix(s, p) THEN SubSeq(s, Len(p) + 1, Len(s)) ELSE s

\* strings.TrimSuffix
TrimSuffix(s, p) == IF HasSuffix(s, p) THEN SubSeq(s, 1, Len(s) - Len(p)) ELSE s

\* strings.Index(s[from..], sub) as an absolute 1-based position, 0 if absent
IndexFrom(s, sub, from) ==
    LET found == {k \in from..(Len(s) - Len(sub) + 1) : SubSeq(s, k, k + Len(sub) - 1) = sub}
    IN  IF found = {} THEN 0 ELSE CHOOSE k \in found : \A j \in found : k <= j

\* strings.Contains
Contains(s, sub) == IndexFrom(s, sub, 1) # 0

\* strings.LastIndex(s, "/") as a 1-based position, 0 if absent
RECURSIVE LastSlash(_, _)
LastSlash(s, i) ==
    IF i = 0 THEN 0
    ELSE IF SubSeq(s, i, i) = "/" THEN i
    ELSE LastSlash(s, i - 1)

(***************************************************************************)
(* path/filepath package (Unix separator)                                  *)
(***************************************************************************)

\* the elements of a path between separators, empty elements included
RECURSIVE SplitPath(_)
SplitPath(s) ==
    LET i == IndexFrom(s, "/", 1)
    IN  IF i = 0 THEN <<s>>
        ELSE <<SubSeq(s, 1, i - 1)>> \o SplitPath(SubSeq(s, i + 1, Len(s)))

\* strings.Join(elems, "/")
RECURSIVE JoinSlash(_)
JoinSlash(elems) ==
    IF Len(elems) = 0 THEN ""
    ELSE IF Len(elems) = 1 THEN elems[1]
    ELSE elems[1] \o "/" \o JoinSlash(Tail(elems))

\* the element stack filepath.Clean builds: "" and "." are dropped, ".."
\* removes the previous element unless that is itself "..", and a ".." that
\* cannot be resolved is kept on a relative path and dropped on a rooted one
RECURSIVE CleanElems(_, _, _)
CleanElems(elems, out, rooted) ==
    IF Len(elems) = 0 THEN out
    ELSE LET e == Head(elems)
             rest == Tail(elems)
         IN  IF e = "" \/ e = "." THEN CleanElems(rest, out, rooted)
             ELSE IF e = ".."
                  THEN IF Len(out) > 0 /\ out[Len(out)] # ".."
                       THEN CleanElems(rest, SubSeq(out, 1, Len(out) - 1), rooted)
                       ELSE IF rooted THEN CleanElems(rest, out, rooted)
                       ELSE CleanElems(rest, Append(out, ".."), rooted)
             ELSE CleanElems(rest, Append(out, e), rooted)

\* filepath.Clean
Clean(path) ==
    IF path = "" THEN "."
    ELSE LET rooted == HasPrefix(path, "/")
             body == JoinSlash(CleanElems(SplitPath(path), <<>>, rooted))
         IN  IF rooted THEN "/" \o body
             ELSE IF body = "" THEN "." ELSE body

\* filepath.Join of two elements: empty elements are ignored, the result is cleaned
Join(a, b) ==
    IF a = "" /\ b = "" THEN ""
    ELSE IF a = "" THEN Clean(b)
    ELSE IF b = "" THEN Clean(a)
    ELSE Clean(a \o "/" \o b)

\* filepath.Join of three elements
Join3(a, b, c) ==
    LET nonEmpty == SelectSeq(<<a, b, c>>, LAMBDA e : e # "")
    IN  IF Len(nonEmpty) = 0 THEN "" ELSE Clean(JoinSlash(nonEmpty))

\* filepath.Dir: everything up to the last separator, cleaned
Dir(path) == Clean(SubSeq(path, 1, LastSlash(path, Len(path))))

\* strips the trailing separators, as filepath.Base does first
RECURSIVE StripTrailingSlashes(_)
StripTrailingSlashes(s) ==
    IF Len(s) > 0 /\ SubSeq(s, Len(s), Len(s)) = "/"
    THEN StripTrailingSlashes(SubSeq(s, 1, Len(s) - 1))
    ELSE s

\* filepath.Base
Base(path) ==
    IF path = "" THEN "."
    ELSE LET p == StripTrailingSlashes(path)
             q == SubSeq(p, LastSlash(p, Len(p)) + 1, Len(p))
         IN  IF q = "" THEN "/" ELSE q

\* the number of leading elements two element lists share
RECURSIVE CommonPrefixLen(_, _)
CommonPrefixLen(bs, ts) ==
    IF Len(bs) = 0 \/ Len(ts) = 0 \/ Head(bs) # Head(ts) THEN 0
    ELSE 1 + CommonPrefixLen(Tail(bs), Tail(ts))

\* n copies of ".."
RECURSIVE Ups(_)
Ups(n) == IF n = 0 THEN <<>> ELSE <<"..">> \o Ups(n - 1)

\* filepath.Rel; the callers discard the error, so a failure is the empty string
Rel(basepath, targpath) ==
    LET base0 == Clean(basepath)
        targ == Clean(targpath)
        base == IF base0 = "." THEN "" ELSE base0
        bs == IF base = "" THEN <<>> ELSE SplitPath(base)
        ts == IF targ = "" THEN <<>> ELSE SplitPath(targ)
        k == CommonPrefixLen(bs, ts)
    IN  IF targ = base0 THEN "."
        ELSE IF HasPrefix(base, "/") # HasPrefix(targ, "/") THEN ""
        ELSE IF k < Len(bs) /\ bs[k + 1] = ".." THEN ""
        ELSE IF k < Len(bs)
             THEN JoinSlash(Ups(Len(bs) - k) \o SubSeq(ts, k + 1, Len(ts)))
             ELSE JoinSlash(SubSeq(ts, k + 1, Len(ts)))

(***************************************************************************)
(* Path Resolver                                                           *)
(***************************************************************************)

\* main.go resolveOutputPath: the ordered match with the home and posts rules
resolveOutputPath(relPath) ==
    IF relPath = "home.md" THEN "index.html"
    ELSE IF relPath = "posts/index.md" THEN "posts/index.html"
    ELSE IF HasPrefix(relPath, "posts/")
         THEN "post/" \o TrimSuffix(TrimPrefix(relPath, "posts/"), ".md") \o ".html"
    ELSE TrimSuffix(relPath, ".md") \o ".html"

\* internal/markdown ResolveOutputPath: the extension is replaced, nothing else
ResolveOutputPath(relPath) == TrimSuffix(relPath, ".md") \o ".html"

\* page.NewGenerator, first version: the output path keeps the base name only
NewGeneratorFlatOutputPath(markdownPath, buildDir) ==
    Join(buildDir, TrimSuffix(Base(markdownPath), ".md") \o ".html")

\* page.NewGenerator, second version: the section is kept as a subdirectory
NewGeneratorOutputPath(markdownPath, buildDir, sectionName) ==
    LET outName == TrimSuffix(Base(markdownPath), ".md") \o ".html"
    IN  IF sectionName # "" THEN Join3(buildDir, sectionName, outName)
        ELSE Join(buildDir, outName)

(***************************************************************************)
(* Reference Rewriter: cross-document links                                *)
(***************************************************************************)

\* the pattern without its extension: any href matches
HrefMatchEnd(html, i) ==
    IF Slice(html, i, i + 5) # "href=\"" THEN 0
    ELSE IndexFrom(html, "\"", i + 6)

\* the regular expression href="([^"]*\.md)" tried at position i: the
\* position of the closing quote of the match, 0 when there is no match at i
HrefMdMatchEnd(html, i) ==
    IF Slice(html, i, i + 5) # "href=\"" THEN 0
    ELSE LET q == IndexFrom(html, "\"", i + 6)
         IN  IF q # 0 /\ q - (i + 6) >= 3 /\ SubSeq(html, q - 3, q - 1) = ".md"
             THEN q ELSE 0

\* main.go convertMdLinksToHtml, the callback: the replacement of one match
convertHref(linkPath, sourceRelPath) ==
    LET sourceDir == Dir(sourceRelPath)
        sourceOutputDir == Dir(resolveOutputPath(sourceRelPath))
        targetRelPath ==
            Clean(IF HasPrefix(linkPath, "../")
                  THEN Join(Dir(sourceDir), TrimPrefix(linkPath, "../"))
                  ELSE Join(sourceDir, linkPath))
        targetOutputPath == resolveOutputPath(targetRelPath)
    IN  "href=\"" \o Rel(sourceOutputDir, targetOutputPath) \o "\""

\* main.go convertMdLinksToHtml, ReplaceAllStringFunc from position i on
RECURSIVE convertMdLinksFrom(_, _, _)
convertMdLinksFrom(html, i, sourceRelPath) ==
    LET h == IndexFrom(html, "href=\"", i)
        q == HrefMdMatchEnd(html, h)
    IN  IF h = 0 THEN Slice(html, i, Len(html))
        ELSE IF q # 0
        THEN Slice(html, i, h - 1) \o convertHref(Slice(html, h + 6, q - 1), sourceRelPath)
                 \o convertMdLinksFrom(html, q + 1, sourceRelPath)
        ELSE Slice(html, i, h) \o convertMdLinksFrom(html, h + 1, sourceRelPath)

\* main.go convertMdLinksToHtml
convertMdLinksToHtml(html, sourceRelPath) == convertMdLinksFrom(html, 1, sourceRelPath)

\* markdown.ConvertMdLinksToHtml, the callback of the simple mode
SimpleHref(linkPath) == "href=\"" \o TrimSuffix(linkPath, ".md") \o ".html" \o "\""

\* the callback with the "../" branch resolved against the source directory
\* itself instead of its parent
ConvertHrefNoClimb(linkPath, sourceRelPath) ==
    LET sourceDir == Dir(sourceRelPath)
        sourceOutputDir == Dir(ResolveOutputPath(sourceRelPath))
        targetRelPath ==
            Clean(IF HasPrefix(linkPath, "../")
                  THEN Join(sourceDir, TrimPrefix(linkPath, "../"))
                  ELSE Join(sourceDir, linkPath))
        targetOutputPath == ResolveOutputPath(targetRelPath)
    IN  "href=\"" \o Rel(sourceOutputDir, targetOutputPath) \o "\""

\* markdown.ConvertMdLinksToHtml, the callback with a source path
ConvertHref(linkPath, sourceRelPath) ==
    LET sourceDir == Dir(sourceRelPath)
        sourceOutputDir == Dir(ResolveOutputPath(sourceRelPath))
        targetRelPath ==
            Clean(IF HasPrefix(linkPath, "../")
                  THEN Join(Dir(sourceDir), TrimPrefix(linkPath, "../"))
                  ELSE Join(sourceDir, linkPath))
        targetOutputPath == ResolveOutputPath(targetRelPath)
    IN  "href=\"" \o Rel(sourceOutputDir, targetOutputPath) \o "\""

\* markdown.ConvertMdLinksToHtml, ReplaceAllStringFunc from position i on
RECURSIVE ConvertMdLinksFrom(_, _, _)
ConvertMdLinksFrom(html, i, sourceRelPath) ==
    LET h == IndexFrom(html, "href=\"", i)
        q == HrefMdMatchEnd(html, h)
        linkPath == Slice(html, h + 6, q - 1)
    IN  IF h = 0 THEN Slice(html, i, Len(html))
        ELSE IF q # 0
        THEN Slice(html, i, h - 1)
                 \o (IF sourceRelPath = "" THEN SimpleHref(linkPath)
                     ELSE ConvertHref(linkPath, sourceRelPath))
                 \o ConvertMdLinksFrom(html, q + 1, sourceRelPath)
        ELSE Slice(html, i, h) \o ConvertMdLinksFrom(html, h + 1, sourceRelPath)

\* markdown.ConvertMdLinksToHtml
ConvertMdLinksToHtml(html, sourceRelPath) == ConvertMdLinksFrom(html, 1, sourceRelPath)

(***************************************************************************)
(* Reference Rewriter: asset references                                    *)
(***************************************************************************)

\* no '>' among the characters m..n of s
NoTagEnd(s, m, n) == \A k \in m..n : Slice(s, k, k) # ">"

\* the regular expression (<img[^>]+src=")([^"]+)(") tried at position i:
\* the start of the src=" the greedy [^>]+ leaves to the rest, 0 when there
\* is no match at i
ImgSrcAttr(html, i) ==
    IF Slice(html, i, i + 3) # "<img" THEN 0
    ELSE LET starts == {j \in (i + 5)..Len(html) :
                            /\ Slice(html, j, j + 4) = "src=\""
                            /\ NoTagEnd(html, i + 4, j - 1)
                            /\ IndexFrom(html, "\"", j + 5) > j + 5}
         IN  IF starts = {} THEN 0
             ELSE CHOOSE j \in starts : \A k \in starts : k <= j

\* the number of leading "../" segments of a reference
RECURSIVE UpCount(_)
UpCount(src) == IF HasPrefix(src, "../") THEN 1 + UpCount(TrimPrefix(src, "../")) ELSE 0

\* the reference without its leading "../" segments
RECURSIVE Remaining(_)
Remaining(src) == IF HasPrefix(src, "../") THEN Remaining(TrimPrefix(src, "../")) ELSE src

\* filepath.Dir applied n times
RECURSIVE DirTimes(_, _)
DirTimes(dir, n) == IF n = 0 THEN dir ELSE DirTimes(Dir(dir), n - 1)

\* the callback without its guards: every src is recomputed
ConvertSrcUnguarded(src, sourceRelPath) ==
    LET sourceDir == Dir(sourceRelPath)
        sourceOutputDir == Dir(ResolveOutputPath(sourceRelPath))
        upCount == UpCount(src)
        targetPath == Clean(Join(DirTimes(sourceDir, upCount), Remaining(src)))
        stripped == TrimPrefix(TrimPrefix(targetPath, "content/"), "../")
    IN  Rel(sourceOutputDir, stripped)

\* markdown.ConvertAssetPaths, the callback: the new value of one src
ConvertSrc(src, sourceRelPath) ==
    LET sourceDir == Dir(sourceRelPath)
        sourceOutputDir == Dir(ResolveOutputPath(sourceRelPath))
        upCount == UpCount(src)
        targetPath == Clean(Join(DirTimes(sourceDir, upCount), Remaining(src)))
        stripped == TrimPrefix(TrimPrefix(targetPath, "content/"), "../")
    IN  IF HasPrefix(src, "http://") \/ HasPrefix(src, "https://") \/ HasPrefix(src, "/")
        THEN src
        ELSE IF upCount = 0 THEN src
        ELSE Rel(sourceOutputDir, stripped)

\* markdown.ConvertAssetPaths, ReplaceAllStringFunc from position i on
RECURSIVE ConvertAssetPathsFrom(_, _, _)
ConvertAssetPathsFrom(html, i, sourceRelPath) ==
    LET t == IndexFrom(html, "<img", i)
        j == ImgSrcAttr(html, t)
        q == IndexFrom(html, "\"", j + 5)
    IN  IF t = 0 THEN Slice(html, i, Len(html))
        ELSE IF j # 0
        THEN Slice(html, i, j + 4) \o ConvertSrc(Slice(html, j + 5, q - 1), sourceRelPath)
                 \o "\"" \o ConvertAssetPathsFrom(html, q + 1, sourceRelPath)
        ELSE Slice(html, i, t) \o ConvertAssetPathsFrom(html, t + 1, sourceRelPath)

\* markdown.ConvertAssetPaths
ConvertAssetPaths(html, sourceRelPath) == ConvertAssetPathsFrom(html, 1, sourceRelPath)

(***************************************************************************)
(* Errors                                                                  *)
(***************************************************************************)

\* an error is the sequence of the lines of its message; nil has none
Nil == <<>>

\* errors.New / a fmt.Errorf without operand
NewError(msg) == <<msg>>

\* fmt.Errorf(prefix + ": %v", err): the prefix goes in front of the first line
Errorf(prefix, err) == <<prefix \o ": " \o Head(err)>> \o Tail(err)

\* errors.Join: the lines of all non-nil errors in order, nil if there are none
RECURSIVE ErrorsJoin(_)
ErrorsJoin(errs) ==
    IF Len(errs) = 0 THEN Nil ELSE Head(errs) \o ErrorsJoin(Tail(errs))

(***************************************************************************)
(* Placeholder Substituter Registry                                        *)
(***************************************************************************)

\* strings.ReplaceAll from position i on, for a non-empty old
RECURSIVE ReplaceAllFrom(_, _, _, _)
ReplaceAllFrom(s, i, old, new) ==
    LET k == IndexFrom(s, old, i)
    IN  IF k = 0 THEN Slice(s, i, Len(s))
        ELSE Slice(s, i, k - 1) \o new \o ReplaceAllFrom(s, k + Len(old), old, new)

\* strings.ReplaceAll
ReplaceAll(s, old, new) == ReplaceAllFrom(s, 1, old, new)

\* Substituter.Placeholder
Placeholder(sub) == "{{" \o sub \o "}}"

\* the regular expression <h1[^>]*>([^<]+)</h1> searched from position i on:
\* the submatch of the leftmost match, <<>> when there is none
RECURSIVE FirstH1From(_, _)
FirstH1From(content, i) ==
    LET t == IndexFrom(content, "<h1", i)
        g == IndexFrom(content, ">", t + 3)
        l == IndexFrom(content, "<", g + 1)
    IN  IF t = 0 THEN <<>>
        ELSE IF g # 0 /\ l > g + 1 /\ Slice(content, l, l + 4) = "</h1>"
        THEN <<Slice(content, g + 1, l - 1)>>
        ELSE FirstH1From(content, t + 1)

\* title.Substituter.Resolve
TitleResolve(content) ==
    LET match == FirstH1From(content, 1)
    IN  IF match # <<>> THEN [value |-> match[1], err |-> Nil]
        ELSE [value |-> "", err |-> NewError("Could not find a page title")]

\* content.Substituter.Resolve
ContentResolve(htmlContent) ==
    [value |-> ConvertAssetPaths(ConvertMdLinksToHtml(htmlContent, ""), ""), err |-> Nil]

\* Substituter.Resolve of the registered substituters
Resolve(sub, content) ==
    IF sub = "title" THEN TitleResolve(content) ELSE ContentResolve(content)

\* substitution.NewRegistry: the default substituters in registration order
NewSubstitutionRegistry == <<"content", "title">>

\* Registry.Apply with a failed substituter skipped instead of reported
RECURSIVE ApplySkippingFailures(_, _, _)
ApplySkippingFailures(subs, result, content) ==
    IF Len(subs) = 0 THEN [result |-> result, err |-> Nil]
    ELSE LET resolution == Resolve(Head(subs), content)
         IN  ApplySkippingFailures(Tail(subs),
                 ReplaceAll(result, Placeholder(Head(subs)), resolution.value), content)

\* Registry.Apply: the loop over the substituters still to apply, result
\* being the template with the earlier ones applied
RECURSIVE Apply(_, _, _)
Apply(subs, result, content) ==
    IF Len(subs) = 0 THEN [result |-> result, err |-> Nil]
    ELSE LET resolution == Resolve(Head(subs), content)
         IN  IF resolution.err # Nil
             THEN [result |-> "", err |-> Errorf("failed to resolve substitution", resolution.err)]
             ELSE Apply(Tail(subs),
                        ReplaceAll(result, Placeholder(Head(subs)), resolution.value), content)

(***************************************************************************)
(* Validator Registry                                                      *)
(***************************************************************************)

\* validation.Error.Error()
ValidationError(file, message) == <<file \o ": " \o message>>

\* Registry.Validate with each validator's errors replacing the earlier ones
RegistryValidateKeepingLast(outputs) ==
    IF Len(outputs) = 0 THEN Nil ELSE ErrorsJoin(outputs[Len(outputs)])

\* the errs slice of Registry.Validate: the errors of every validator appended
RECURSIVE AppendAll(_)
AppendAll(outputs) ==
    IF Len(outputs) = 0 THEN <<>> ELSE Head(outputs) \o AppendAll(Tail(outputs))

\* Registry.Validate, outputs[v] being the errors validator v returned
RegistryValidate(outputs) ==
    LET errs == AppendAll(outputs)
    IN  IF Len(errs) > 0 THEN ErrorsJoin(errs) ELSE Nil

(***************************************************************************)
(* Page generator                                                          *)
(***************************************************************************)

\* the page template the generator embeds
PageTemplate == "<title>{{title}}</title><body>{{content}}</body>"

\* what the markdown converter makes of a document: a page with a top-level
\* heading, or one without when the document has none
ConvertedContent(cond) ==
    IF cond = "notitle" THEN "<p>Just text</p><a href=\"hello.md\">next</a>"
    ELSE "<h1>Hello</h1><p>Text</p><a href=\"index.md\">home</a>"

\* page.NewGenerator
NewGenerator(markdownPath, buildDir, sectionName) ==
    [markdownPath |-> markdownPath,
     htmlOutputPath |-> NewGeneratorOutputPath(markdownPath, buildDir, sectionName),
     buildDir |-> buildDir,
     sectionName |-> sectionName,
     htmlContentBytes |-> ""]

\* page Generator.Generate from the call of Apply on: applied is what Apply
\* returned for the converted content
GenerateFromApply(g, cond, fs, content, applied) ==
    IF applied.err # Nil
    THEN [err |-> Errorf("failed to project content inside the page template", applied.err),
          content |-> <<content>>, applied |-> <<applied>>, fs |-> fs, g |-> g]
    ELSE IF cond = "nomkdir"
    THEN [err |-> Errorf("failed to create output directory", NewError("permission denied")),
          content |-> <<content>>, applied |-> <<applied>>, fs |-> fs, g |-> g]
    ELSE IF cond = "readonly"
    THEN [err |-> Errorf("failed to write " \o g.htmlOutputPath, NewError("permission denied")),
          content |-> <<content>>, applied |-> <<applied>>, fs |-> fs, g |-> g]
    ELSE [err |-> Nil, content |-> <<content>>, applied |-> <<applied>>,
          fs |-> (g.htmlOutputPath :> applied.result) @@ fs,
          g |-> [g EXCEPT !.htmlContentBytes = applied.result]]

\* page Generator.Generate on the file system fs; cond tells what the
\* environment does to this page: the document cannot be read or converted,
\* has no title, or the output directory or file cannot be written
PageGenerate(g, cond, fs) ==
    IF cond = "unreadable"
    THEN [err |-> Errorf("reading " \o g.markdownPath, NewError("no such file")),
          content |-> <<>>, applied |-> <<>>, fs |-> fs, g |-> g]
    ELSE IF cond = "unconvertible"
    THEN [err |-> Errorf("failed to convert markdown content", NewError("convert")),
          content |-> <<>>, applied |-> <<>>, fs |-> fs, g |-> g]
    ELSE GenerateFromApply(g, cond, fs, ConvertedContent(cond),
                           Apply(NewSubstitutionRegistry, PageTemplate, ConvertedContent(cond)))

\* validation.NewRegistry: the validators in registration order
Validators == <<"link", "image", "navigation">>

\* the errors a validator returns when it finds n broken references in a page
ValidatorOutput(v, n, htmlPath) ==
    [k \in 1..n |-> ValidationError(htmlPath, Validators[v] \o " check " \o ToString(k))]

\* page Generator.Validate, findings[v] being the number of broken references
\* validator v finds in the page
PageValidate(g, findings) ==
    RegistryValidate([v \in 1..Len(Validators) |-> ValidatorOutput(v, findings[v], g.htmlOutputPath)])

\* the section cut down to the top-level directory
extractSectionTopLevel(contentDir, filePath) ==
    LET section == Dir(Rel(contentDir, filePath))
    IN  IF section = "." THEN "" ELSE SplitPath(section)[1]

\* site.extractSection
extractSection(contentDir, filePath) ==
    LET section == Dir(Rel(contentDir, filePath))
    IN  IF section = "." THEN "" ELSE section

(***************************************************************************)
(* Style Resolver                                                          *)
(***************************************************************************)

\* styling.NewConfig: both mappings empty
NewConfig == [Elements |-> <<>>, Contexts |-> <<>>]

\* the lookup with the global entry tried before the context entry
GetClassesGlobalFirst(c, elemType, ctx) ==
    IF elemType \in DOMAIN c.Elements THEN c.Elements[elemType]
    ELSE IF ctx # "" /\ ctx \in DOMAIN c.Contexts /\ elemType \in DOMAIN c.Contexts[ctx]
         THEN c.Contexts[ctx][elemType]
    ELSE ""

\* Config.GetClasses
GetClasses(c, elemType, ctx) ==
    IF ctx # "" /\ ctx \in DOMAIN c.Contexts /\ elemType \in DOMAIN c.Contexts[ctx]
    THEN c.Contexts[ctx][elemType]
    ELSE IF elemType \in DOMAIN c.Elements THEN c.Elements[elemType]
    ELSE ""

\* Transformer.headingType
headingType(level) ==
    IF level \in 1..6 THEN "heading" \o ToString(level) ELSE "heading1"

\* Transformer.Transform, the switch on the node type: the element type of a
\* node, "" for the nodes the walk passes over
NodeElementType(n) ==
    CASE n.kind = "Heading" -> headingType(n.level)
      [] n.kind = "Paragraph" -> "paragraph"
      [] n.kind = "Link" -> "link"
      [] n.kind = "Image" -> "image"
      [] n.kind \in {"CodeBlock", "FencedCodeBlock"} -> "codeblock"
      [] n.kind = "CodeSpan" -> "code"
      [] n.kind = "Blockquote" -> "blockquote"
      [] n.kind = "List" -> "list"
      [] n.kind = "ListItem" -> "listitem"
      [] OTHER -> ""

\* the walk callback with the configuration consulted for every element
TransformNodeOverriding(c, ctx, n) ==
    IF NodeElementType(n) = "" \/ GetClasses(c, NodeElementType(n), ctx) = "" THEN n
    ELSE [n EXCEPT !.attributes =
              ("class" :> GetClasses(c, NodeElementType(n), ctx)) @@ n.attributes]

\* Transformer.Transform, the walk callback on one node entered: attributes
\* maps the names of the node's attributes to their values
TransformNode(c, ctx, n) ==
    IF NodeElementType(n) = "" THEN n
    ELSE IF "class" \in DOMAIN n.attributes THEN n
    ELSE IF GetClasses(c, NodeElementType(n), ctx) = "" THEN n
    ELSE [n EXCEPT !.attributes =
              ("class" :> GetClasses(c, NodeElementType(n), ctx)) @@ n.attributes]

\* Transformer.Transform: ast.Walk over the nodes of the document
Transform(c, ctx, doc) == [k \in 1..Len(doc) |-> TransformNode(c, ctx, doc[k])]

\* validElementTypesList
validElementTypesList ==
    <<"heading1", "heading2", "heading3", "heading4", "heading5", "heading6",
      "paragraph", "link", "image", "codeblock", "code", "blockquote", "list", "listitem">>

\* validElementTypes: the keys the map holds
validElementTypes == {validElementTypesList[k] : k \in 1..Len(validElementTypesList)}

\* strings.Join
RECURSIVE JoinStrings(_, _)
JoinStrings(elems, sep) ==
    IF Len(elems) = 0 THEN ""
    ELSE IF Len(elems) = 1 THEN Head(elems)
    ELSE Head(elems) \o sep \o JoinStrings(Tail(elems), sep)

\* the orders in which a range loop can visit the keys of a map
Orders(keys) ==
    {order \in [1..Cardinality(keys) -> keys] :
         \A i, j \in 1..Cardinality(keys) : i # j => order[i] # order[j]}

\* Config.Validate, the loop over c.Elements: the invalidKeys it can leave
InvalidElementKeys(c) ==
    {[k \in 1..Len(order) |-> "elements." \o order[k]] :
         order \in Orders({key \in DOMAIN c.Elements : key \notin validElementTypes})}

\* Config.Validate, the inner loop over one context map
InvalidContextKeys(c, contextName) ==
    {[k \in 1..Len(order) |-> "contexts." \o contextName \o "." \o order[k]] :
         order \in Orders({key \in DOMAIN c.Contexts[contextName] :
                               key \notin validElementTypes})}

\* Config.Validate, the loop over c.Contexts visited in the order names
RECURSIVE InvalidKeysAlong(_, _)
InvalidKeysAlong(c, names) ==
    IF Len(names) = 0 THEN {<<>>}
    ELSE {a \o b : a \in InvalidContextKeys(c, Head(names)),
                   b \in InvalidKeysAlong(c, Tail(names))}

\* Config.Validate: the values invalidKeys can have after both loops, one
\* for every order in which the maps can be visited
InvalidKeys(c) ==
    {a \o b : a \in InvalidElementKeys(c),
              b \in UNION {InvalidKeysAlong(c, names) : names \in Orders(DOMAIN c.Contexts)}}

\* Config.Validate with the context maps left unchecked
ConfigValidateElementsOnly(c, invalidKeys) ==
    IF \E k \in 1..Len(invalidKeys) : HasPrefix(invalidKeys[k], "elements.")
    THEN NewError("invalid style config keys: "
                  \o JoinStrings(SelectSeq(invalidKeys, LAMBDA key : HasPrefix(key, "elements.")), ", ")
                  \o ". Valid keys are: " \o JoinStrings(validElementTypesList, ", "))
    ELSE Nil

\* Config.Validate from its last statement on, invalidKeys being what the
\* loops over c left
ConfigValidate(c, invalidKeys) ==
    IF Len(invalidKeys) > 0
    THEN NewError("invalid style config keys: " \o JoinStrings(invalidKeys, ", ")
                  \o ". Valid keys are: " \o JoinStrings(validElementTypesList, ", "))
    ELSE Nil

\* ParseConfig on the mappings the data unmarshals to: nil and the error of
\* Validate, or the configuration
ParseConfig(c, invalidKeys) ==
    IF ConfigValidate(c, invalidKeys) # Nil
    THEN [config |-> <<>>, err |-> ConfigValidate(c, invalidKeys)]
    ELSE [config |-> <<c>>, err |-> Nil]

(***************************************************************************)
(* Navigation Builder and navigation validator                             *)
(***************************************************************************)

\* strings.Count(s, sub) for the occurrences from position i on
RECURSIVE CountFrom(_, _, _)
CountFrom(s, sub, i) ==
    LET k == IndexFrom(s, sub, i)
    IN  IF k = 0 THEN 0 ELSE 1 + CountFrom(s, sub, k + Len(sub))

\* strings.Repeat
RECURSIVE Repeat(_, _)
Repeat(s, n) == IF n = 0 THEN "" ELSE s \o Repeat(s, n - 1)

LowerLetters == "abcdefghijklmnopqrstuvwxyz"

UpperLetters == "ABCDEFGHIJKLMNOPQRSTUVWXYZ"

\* strings.ToUpper of a string of one ASCII character
ToUpper(c) ==
    LET k == IndexFrom(LowerLetters, c, 1)
    IN  IF k = 0 THEN c ELSE Slice(UpperLetters, k, k)

\* the display name of a section: strings.ToUpper(section[:1]) + section[1:]
DisplayName(section) == ToUpper(Slice(section, 1, 1)) \o Slice(section, 2, Len(section))

\* relativePrefix with the depth of a section taken as one
relativePrefixOneLevel(section) == IF section = "" THEN "" ELSE "../"

\* navigation relativePrefix
relativePrefix(section) ==
    IF section = "" THEN "" ELSE Repeat("../", CountFrom(section, "/", 1) + 1)

\* navigation Substituter.Resolve: the link of one section
SectionLink(prefix, section) ==
    "<a href=\"" \o prefix \o section \o "/index.html"
        \o "\" class=\"hover:underline\">" \o DisplayName(section) \o "</a>"

\* the entries for the sections with the last section left out
NavigationLinksButLast(secs, section) ==
    <<"<a href=\"" \o relativePrefix(section)
          \o "index.html\" class=\"hover:underline\">Accueil</a>">>
        \o [k \in 1..(Len(secs) - 1) |-> SectionLink(relativePrefix(section), secs[k])]

\* navigation Substituter.Resolve: the links slice, the home entry and one
\* entry per section
NavigationLinks(secs, section) ==
    <<"<a href=\"" \o relativePrefix(section)
          \o "index.html\" class=\"hover:underline\">Accueil</a>">>
        \o [k \in 1..Len(secs) |-> SectionLink(relativePrefix(section), secs[k])]

\* navigation Substituter.Resolve
NavigationResolve(secs, section) ==
    "<nav class=\"flex gap-4\">" \o JoinStrings(NavigationLinks(secs, section), "\n    ")
        \o "</nav>"

\* the regular expression (?s)<nav[^>]*>(.*?)</nav>: the submatch of the
\* leftmost match, <<>> when there is none
NavMatch(pageHtml) ==
    LET t == IndexFrom(pageHtml, "<nav", 1)
        g == IndexFrom(pageHtml, ">", t + 4)
        e == IndexFrom(pageHtml, "</nav>", g + 1)
    IN  IF t = 0 THEN <<>>
        ELSE IF g = 0 THEN <<>>
        ELSE IF e = 0 THEN <<>>
        ELSE <<Slice(pageHtml, g + 1, e - 1)>>

\* the home href accepted without any leading ../ only
HomeHrefMatchesAtRoot(navContent) == Contains(navContent, "href=\"index.html\"")

\* the regular expression href="(\.\./)*index\.html" matches somewhere in s
HomeHrefMatches(navContent) ==
    \E k \in 1..Len(navContent) :
        /\ Slice(navContent, k, k + 5) = "href=\""
        /\ HasPrefix(Remaining(Slice(navContent, k + 6, Len(navContent))), "index.html\"")

\* navigation Validator.Validate, the loop over the sections from the k-th on
RECURSIVE SectionErrors(_, _, _, _)
SectionErrors(secs, k, htmlPath, navContent) ==
    IF k > Len(secs) THEN <<>>
    ELSE (IF Contains(navContent, secs[k] \o "/index.html") THEN <<>>
          ELSE <<NewError(htmlPath \o ": navigation missing link to section \"" \o secs[k]
                          \o "\" (expected href containing \"" \o secs[k]
                          \o "/index.html\")")>>)
         \o (IF Contains(navContent, DisplayName(secs[k])) THEN <<>>
             ELSE <<NewError(htmlPath \o ": navigation missing display name \""
                             \o DisplayName(secs[k]) \o "\" for section \"" \o secs[k]
                             \o "\"")>>)
         \o SectionErrors(secs, k + 1, htmlPath, navContent)

\* navigation Validator.Validate once the navigation block is found
NavContentErrors(secs, htmlPath, navContent) ==
    (IF Contains(navContent, "Accueil") THEN <<>>
     ELSE <<NewError(htmlPath \o ": navigation missing home link (Accueil)")>>)
    \o (IF HomeHrefMatches(navContent) THEN <<>>
        ELSE <<NewError(htmlPath \o ": navigation missing home href to index.html")>>)
    \o SectionErrors(secs, 1, htmlPath, navContent)

\* navigation Validator.Validate
NavigationValidate(secs, htmlPath, pageHtml) ==
    IF NavMatch(pageHtml) = <<>>
    THEN <<NewError(htmlPath \o ": missing <nav> element")>>
    ELSE NavContentErrors(secs, htmlPath, NavMatch(pageHtml)[1])

(***************************************************************************)
(* Link, image and script validators                                       *)
(***************************************************************************)

\* the regular expression <tag[^>]+attr="([^"]+)" tried at position i: the
\* start of the attr=" the greedy [^>]+ leaves to the rest, 0 when there is
\* no match at i
AttrStart(content, i, tag, attr) ==
    IF Slice(content, i, i + Len(tag) - 1) # tag THEN 0
    ELSE LET open == attr \o "=\""
             starts == {j \in (i + Len(tag) + 1)..Len(content) :
                            /\ Slice(content, j, j + Len(open) - 1) = open
                            /\ NoTagEnd(content, i + Len(tag), j - 1)
                            /\ IndexFrom(content, "\"", j + Len(open)) > j + Len(open)}
         IN  IF starts = {} THEN 0
             ELSE CHOOSE j \in starts : \A k \in starts : k <= j

\* Regexp.FindAllSubmatch for <tag[^>]+attr="([^"]+)": the captured values
\* of the matches from position i on, in order
RECURSIVE FindAllSubmatch(_, _, _, _)
FindAllSubmatch(content, i, tag, attr) ==
    LET p == IndexFrom(content, tag, i)
    IN  IF p = 0 THEN <<>>
        ELSE LET j == AttrStart(content, p, tag, attr)
                 from == j + Len(attr) + 2
                 q == IndexFrom(content, "\"", from)
             IN  IF j = 0 THEN FindAllSubmatch(content, p + 1, tag, attr)
                 ELSE <<Slice(content, from, q - 1)>>
                          \o FindAllSubmatch(content, q + 1, tag, attr)

\* isExternalURL
isExternalURL(href) == HasPrefix(href, "http://") \/ HasPrefix(href, "https://")

\* only the fragments skipped
isFragmentTarget(href) == HasPrefix(href, "#")

\* the prefixes link Validator.Validate skips before any check
isSkippedTarget(href) ==
    \/ HasPrefix(href, "#")
    \/ HasPrefix(href, "mailto:")
    \/ HasPrefix(href, "tel:")
    \/ HasPrefix(href, "javascript:")

\* os.Stat on an output tree given by its files: "" (nil) for a file or a
\* directory, ENOTDIR for a path through a file, ENOENT for any other path
Stat(tree, path) ==
    IF path \in DOMAIN tree THEN ""
    ELSE IF path = "." \/ \E f \in DOMAIN tree : HasPrefix(f, path \o "/") THEN ""
    ELSE IF \E f \in DOMAIN tree : HasPrefix(path, f \o "/") THEN "ENOTDIR"
    ELSE "ENOENT"

\* os.IsNotExist
IsNotExist(err) == err = "ENOENT"

\* the path names a directory of the output tree
IsDirectory(tree, path) == path \notin DOMAIN tree /\ Stat(tree, path) = ""

\* filepath.Ext: from the last dot of the last element on, "" without one
Ext(path) ==
    LET dots == {k \in 1..Len(path) :
                     /\ Slice(path, k, k) = "."
                     /\ \A m \in k..Len(path) : Slice(path, m, m) # "/"}
    IN  IF dots = {} THEN ""
        ELSE SubSeq(path, CHOOSE k \in dots : \A m \in dots : m <= k, Len(path))

\* strings.Split(href, "#")[0]
BeforeFragment(href) ==
    LET h == IndexFrom(href, "#", 1)
    IN  IF h = 0 THEN href ELSE SubSeq(href, 1, h - 1)

\* the path a local reference designates: below the build root when it
\* starts with /, beside the referencing page otherwise, then cleaned
resolveLocalPath(ref, htmlPath, buildDir) ==
    IF HasPrefix(ref, "/") THEN Clean(Join(buildDir, ref))
    ELSE Clean(Join(Dir(htmlPath), ref))

\* the transport error of a HEAD request that got no response
TransportError(url) == "Head \"" \o url \o "\": dial tcp: lookup failed"

\* only a transport error rejected, whatever the status
validateExternalAnyStatus(url, network) ==
    IF network[url].failed THEN TransportError(url) ELSE ""

\* validateExternalLink and validateExternalImage on the response the
\* network gives to HEAD url: the text of the error, "" for nil
validateExternal(url, network) ==
    LET resp == network[url]
    IN  IF resp.failed THEN TransportError(url)
        ELSE IF resp.StatusCode < 200 \/ resp.StatusCode >= 400
             THEN "HTTP " \o ToString(resp.StatusCode)
             ELSE ""

\* link Validator.validateLocalLink: the error ("" for nil) and the paths
\* handed to os.Stat
validateLocalLink(href, htmlPath, buildDir, tree) ==
    LET target == BeforeFragment(href)
        linkPath == resolveLocalPath(target, htmlPath, buildDir)
        indexPath == Join(linkPath, "index.html")
        notFound == "path not found: " \o linkPath
    IN  IF target = "" THEN [err |-> "", stats |-> <<>>]
        ELSE IF Stat(tree, linkPath) = "" THEN [err |-> "", stats |-> <<linkPath>>]
        ELSE IF Ext(linkPath) = ""
             THEN [err |-> IF Stat(tree, indexPath) = "" THEN "" ELSE notFound,
                   stats |-> <<linkPath, indexPath>>]
             ELSE [err |-> notFound, stats |-> <<linkPath>>]

\* the stat and HEAD calls made for reference ref
CallsFor(ref, calls) == [k \in 1..Len(calls) |-> [ref |-> ref, target |-> calls[k]]]

\* one turn of the loop of link Validator.Validate: the errors appended, the
\* paths handed to os.Stat and the HEAD requests sent for one href
linkCheck(href, htmlPath, buildDir, tree, skip, network) ==
    IF isSkippedTarget(href) THEN [errs |-> <<>>, stats |-> <<>>, heads |-> <<>>]
    ELSE IF isExternalURL(href)
    THEN IF skip THEN [errs |-> <<>>, stats |-> <<>>, heads |-> <<>>]
         ELSE LET err == validateExternal(href, network)
              IN  [errs |-> IF err = "" THEN <<>>
                            ELSE <<NewError(htmlPath \o ": external link not accessible: "
                                                \o href \o " (" \o err \o ")")>>,
                   stats |-> <<>>,
                   heads |-> CallsFor(href, <<href>>)]
    ELSE LET local == validateLocalLink(href, htmlPath, buildDir, tree)
         IN  [errs |-> IF local.err = "" THEN <<>>
                       ELSE <<NewError(htmlPath \o ": local link not found: " \o href)>>,
              stats |-> CallsFor(href, local.stats),
              heads |-> <<>>]

\* image Validator.validateLocalImage: the error of os.Stat when it says the
\* path does not exist, "" (nil) otherwise
validateLocalImage(src, htmlPath, buildDir, tree) ==
    LET err == Stat(tree, resolveLocalPath(src, htmlPath, buildDir))
    IN  IF IsNotExist(err) THEN err ELSE ""

\* one turn of the loop of image Validator.Validate
imageCheck(src, htmlPath, buildDir, tree, skip, network) ==
    IF isExternalURL(src)
    THEN IF skip THEN [errs |-> <<>>, stats |-> <<>>, heads |-> <<>>]
         ELSE LET err == validateExternal(src, network)
              IN  [errs |-> IF err = "" THEN <<>>
                            ELSE <<NewError(htmlPath \o ": external image not accessible: "
                                                \o src \o " (" \o err \o ")")>>,
                   stats |-> <<>>,
                   heads |-> CallsFor(src, <<src>>)]
    ELSE [errs |-> IF validateLocalImage(src, htmlPath, buildDir, tree) = "" THEN <<>>
                   ELSE <<NewError(htmlPath \o ": local image not found: " \o src)>>,
          stats |-> CallsFor(src, <<resolveLocalPath(src, htmlPath, buildDir)>>),
          heads |-> <<>>]

\* the script read but not parsed
validateJSReadable(scriptPath, tree) ==
    IF scriptPath \notin DOMAIN tree
    THEN <<NewError(scriptPath \o ": failed to read script: read " \o scriptPath)>>
    ELSE <<>>

\* script Validator.validateJSSyntax: os.ReadFile fails on anything but a
\* file, and the parser rejects a file that is not JavaScript
validateJSSyntax(scriptPath, tree) ==
    IF scriptPath \notin DOMAIN tree
    THEN <<NewError(scriptPath \o ": failed to read script: read " \o scriptPath
                        \o ": " \o (IF Stat(tree, scriptPath) = ""
                                    THEN "is a directory" ELSE "not a directory"))>>
    ELSE IF tree[scriptPath] # "js"
    THEN <<NewError(scriptPath \o ": JavaScript syntax error: Unexpected token")>>
    ELSE <<>>

\* one turn of the loop of script Validator.Validate
scriptCheck(src, htmlPath, buildDir, tree) ==
    IF isExternalURL(src) THEN [errs |-> <<>>, stats |-> <<>>, heads |-> <<>>]
    ELSE LET scriptPath == resolveLocalPath(src, htmlPath, buildDir)
         IN  [errs |-> IF IsNotExist(Stat(tree, scriptPath))
                       THEN <<NewError(htmlPath \o ": local script not found: " \o src)>>
                       ELSE validateJSSyntax(scriptPath, tree),
              stats |-> CallsFor(src, <<scriptPath>>),
              heads |-> <<>>]

\* the loop over the matches: what every turn appended, in order
Collected(turns) ==
    [errs |-> AppendAll([k \in 1..Len(turns) |-> turns[k].errs]),
     stats |-> AppendAll([k \in 1..Len(turns) |-> turns[k].stats]),
     heads |-> AppendAll([k \in 1..Len(turns) |-> turns[k].heads])]

\* link Validator.Validate
LinkValidate(htmlPath, buildDir, content, tree, skip, network) ==
    LET matches == FindAllSubmatch(content, 1, "<a", "href")
    IN  Collected([k \in 1..Len(matches) |->
                       linkCheck(matches[k], htmlPath, buildDir, tree, skip, network)])

\* image Validator.Validate
ImageValidate(htmlPath, buildDir, content, tree, skip, network) ==
    LET matches == FindAllSubmatch(content, 1, "<img", "src")
    IN  Collected([k \in 1..Len(matches) |->
                       imageCheck(matches[k], htmlPath, buildDir, tree, skip, network)])

\* script Validator.Validate
ScriptValidate(htmlPath, buildDir, content, tree) ==
    LET matches == FindAllSubmatch(content, 1, "<script", "src")
    IN  Collected([k \in 1..Len(matches) |->
                       scriptCheck(matches[k], htmlPath, buildDir, tree)])

(***************************************************************************)
(* Bounds and input sets                                                   *)
(***************************************************************************)

\* deepest directory nesting of a source document
MaxDepth == 2

\* most leading "../" segments of a generated link
MaxUp == 2

DirNames == {"posts", "post"}

DocNames == {"home.md", "index.md", "hello.md"}

\* the directories of nesting depth d, each ending in a separator
RECURSIVE DirsOfDepth(_)
DirsOfDepth(d) ==
    IF d = 0 THEN {""}
    ELSE {p \o n \o "/" : p \in DirsOfDepth(d - 1), n \in DirNames}

\* the source-relative paths of the documents a content tree may hold
Docs == UNION {{dir \o n : dir \in DirsOfDepth(d), n \in DocNames} : d \in 0..MaxDepth}

\* n leading "../" segments
RECURSIVE UpPrefix(_)
UpPrefix(n) == IF n = 0 THEN "" ELSE "../" \o UpPrefix(n - 1)

\* relative references to documents, as an author writes them
RelativeMdLinks ==
    {UpPrefix(n) \o d : n \in 0..MaxUp, d \in Docs} \cup {"./" \o d : d \in Docs}

\* references that are not relative references to a document of the tree
OtherLinks ==
    {"https://example.com", "https://example.com/README.md",
     "http://example.com/docs/a.md", "#top", "#notes.md", "image.png"}

LinkTargets == RelativeMdLinks \cup OtherLinks

\* the markup the converter emits for a link
Anchor(link) == "<a href=\"" \o link \o "\">t</a>"

\* the value of the first href attribute of a markup
HrefOf(markup) ==
    LET i == IndexFrom(markup, "href=\"", 1)
        q == IndexFrom(markup, "\"", i + 6)
    IN  IF i = 0 \/ q = 0 THEN "" ELSE Slice(markup, i + 6, q - 1)

\* the element types a loaded style configuration has entries for
ElementKeys == {"heading1", "paragraph"}

\* the context names a loaded style configuration has entries for; the
\* site passes the section of a page as context, "" for a root page
ContextNames == {"", "post"}

\* the partial mappings from element types to the class string cls
ElementMaps(cls) == UNION {[keys -> {cls}] : keys \in SUBSET ElementKeys}

\* the style configurations a configuration file can load to
StyleConfigs ==
    {[Elements |-> e, Contexts |-> c] :
        e \in ElementMaps("global-class"),
        c \in UNION {[names -> ElementMaps("context-class")] : names \in SUBSET ContextNames}}

\* the element types and contexts GetClasses is asked about
QueriedElements == ElementKeys \cup {"unknown"}

QueriedContexts == ContextNames \cup {"nonexistent"}

\* most errors one validator reports for one page
MaxValErrs == 1

\* most calls of Generate on one site Generator
MaxBuilds == 2

\* site.NewGenerator: the directories of the default site
DefaultContentDir == "content/markdown"

DefaultBuildDir == "target/build"

\* the files a content tree may hold, in the order filepath.Walk visits them
WalkOrder == <<"index.md", "notes.txt", "posts/hello.md">>

ContentPool == {WalkOrder[i] : i \in 1..Len(WalkOrder)}

\* what the environment does to the generation of one document
FailingConditions == {"unreadable", "unconvertible", "notitle", "nomkdir", "readonly"}

NoFindings == [v \in 1..Len(Validators) |-> 0]

\* a document either fails to generate, or generates and has each validator
\* find some number of broken references in its page
Profiles ==
    {[cond |-> c, findings |-> NoFindings] : c \in FailingConditions}
        \cup {[cond |-> "ok", findings |-> f] : f \in [1..Len(Validators) -> 0..MaxValErrs]}

\* the markdown documents of a content tree
MdDocs(tree) == {f \in tree : HasSuffix(f, ".md")}

\* the files of a tree in walk order
Walked(tree) == SelectSeq(WalkOrder, LAMBDA f : f \in tree)

\* most nodes of a parsed document
MaxNodes == 2

\* the attributes the inline attribute syntax of the source gives a node
InlineAttributes ==
    {<<>>, [class |-> "inline-class"], [id |-> "intro"],
     [class |-> "inline-class", id |-> "intro"]}

\* the nodes of a parsed document: headings, paragraphs and text
Nodes ==
    {[kind |-> "Heading", level |-> l, attributes |-> a] :
         l \in 1..2, a \in InlineAttributes}
        \cup {[kind |-> k, level |-> 0, attributes |-> a] :
                  k \in {"Paragraph", "Text"}, a \in InlineAttributes}

\* the documents of up to MaxNodes nodes
Documents == UNION {[1..n -> Nodes] : n \in 1..MaxNodes}

\* the keys a style configuration file may use: recognized element types
\* and names that are not
FileKeys == {"heading1", "paragraph", "header", "title"}

\* the partial mappings from file keys to a class string
FileMaps == UNION {[keys -> {"some-class"}] : keys \in SUBSET FileKeys}

\* the mappings a well-formed style configuration file unmarshals to; the
\* empty file gives the empty mappings of NewConfig
ConfigFiles ==
    {[Elements |-> e, Contexts |-> c] :
        e \in FileMaps, c \in UNION {[names -> FileMaps] : names \in SUBSET ContextNames}}

\* most sections of a site
MaxSections == 2

\* the names of the sections of a site
SectionNames == {"posts", "about"}

\* the section lists a substituter or validator is built with
SectionLists == UNION {[1..n -> SectionNames] : n \in 0..MaxSections}

\* the section paths of pages: the directories of depth 0..MaxDepth
SectionPaths == UNION {{TrimSuffix(dir, "/") : dir \in DirsOfDepth(d)} : d \in 0..MaxDepth}

\* the template a navigation block is projected into
NavigationTemplate == "<div>{{navigation}}</div>"

\* the home entries an author may write into a template by hand
HomeEntries(prefix) ==
    {"<a href=\"" \o prefix \o "index.html\">Accueil</a>",
     "<a href=\"" \o prefix \o "index.html\">Home</a>",
     "<a href=\"home.html\">Accueil</a>",
     ""}

\* the entries an author may write by hand for one section
SectionEntries(prefix, section) ==
    {SectionLink(prefix, section),
     "<a href=\"" \o prefix \o section \o "/index.html\">" \o section \o "</a>",
     "<a href=\"" \o section \o ".html\">" \o DisplayName(section) \o "</a>",
     "<span>" \o section \o "/index.html " \o DisplayName(section) \o "</span>",
     ""}

\* the entries an author may write by hand for the sections from the k-th on
RECURSIVE SectionEntriesFrom(_, _, _)
SectionEntriesFrom(prefix, secs, k) ==
    IF k > Len(secs) THEN {""}
    ELSE {a \o b : a \in SectionEntries(prefix, secs[k]),
                   b \in SectionEntriesFrom(prefix, secs, k + 1)}

\* the pages whose navigation was written by hand, and pages without one
HandWrittenPages(secs, section) ==
    {"<body><nav>" \o h \o e \o "</nav></body>" :
         h \in HomeEntries(relativePrefix(section)),
         e \in SectionEntriesFrom(relativePrefix(section), secs, 1)}
        \cup {"<body><p>Text</p></body>", "<body><nav><a href=\"index.html\">Accueil</a></body>"}

\* most tokens of a template
MaxTokens == 3

\* the tokens templates are made of: the registered placeholders and markup
TemplateTokens == {"{{title}}", "{{content}}", "<hr>"}

\* the concatenation of a sequence of strings
RECURSIVE Concat(_)
Concat(parts) == IF parts = <<>> THEN "" ELSE Head(parts) \o Concat(Tail(parts))

\* the templates: up to MaxTokens tokens in a row
Templates == {Concat(parts) : parts \in UNION {[1..n -> TemplateTokens] : n \in 0..MaxTokens}}

\* the converted contents of pages: with one heading, several, none, a
\* heading with inline markup, an empty heading, a body that shows a
\* placeholder token
PageContents ==
    {"",
     "<p>Just a paragraph</p>",
     "<h2>Not a title</h2><p>Content</p>",
     "<h1>My Page Title</h1><p>Some content</p>",
     "<h1 class=\"text-4xl font-bold\">Styled Title</h1>",
     "<h1>First</h1><h1>Second</h1>",
     "<h1>Hello <em>world</em></h1><p>Text</p>",
     "<h1><em>First</em></h1><h1>Second</h1>",
     "<h1></h1><p>Text</p>",
     "<h1>Tokens</h1><p>{{title}}</p>"}

\* the registries NewRegistry and NewRegistryWithSubstituters build
Registries ==
    {<<>>, <<"content">>, <<"title">>, NewSubstitutionRegistry, <<"title", "content">>}

\* the names of the files of the assets directory
AssetNames == {"logo.png"}

\* the reference an author writes in a document to a file of the assets
\* directory, which lies next to the content directory
AssetReference(doc, name) ==
    UpPrefix(Len(SplitPath(doc))) \o "assets/" \o name

\* the image sources an author writes
ImageSources ==
    {UpPrefix(n) \o "assets/" \o name : n \in 0..(MaxDepth + 1), name \in AssetNames}
        \cup {"image.png", "img/photo.jpg", "./../assets/logo.png", "/images/logo.png",
              "//cdn.example.com/a.png", "https://example.com/img.png",
              "http://example.com/../img.png"}

\* the markup the converter emits for an image
ImgTags(src) ==
    {"<img src=\"" \o src \o "\">",
     "<p><img class=\"w-full\" src=\"" \o src \o "\" alt=\"Photo\"></p>"}

\* the content directories a site generator is given: the default and
\* those WithContentDir sets
ContentDirs == {DefaultContentDir, "content", "site/content/markdown", ".", "../blog/content"}

\* the markup of converted documents: a link, an image, both or neither
Markups ==
    LET anchors == {Anchor(link) : link \in OtherLinks \cup {"hello.md", "../index.md", "about.html"}}
                       \cup {"<p>Text</p>"}
        images == {"<img src=\"" \o src \o "\">" : src \in ImageSources} \cup {""}
    IN  {a \o i : a \in anchors, i \in images}

\* the references of one page at most
MaxRefs == 2

\* the build directory and the pages the validators are given
BuildDir == "build"

CheckedPaths == {"build/index.html", "build/posts/hello.html"}

\* the kind of content a file of the output tree has
KindOf(file, script) ==
    IF HasSuffix(file, ".js") THEN script
    ELSE IF HasSuffix(file, ".png") THEN "png" ELSE "html"

\* the output trees holding the page: with or without the index of the posts
\* and a script, which parses or not
OutputTrees(page) ==
    {[file \in {page, "build/assets/logo.png"} \cup more |-> KindOf(file, script)] :
         more \in SUBSET {"build/posts/index.html", "build/scripts/app.js"},
         script \in {"js", "broken js"}}

ExternalURLs == {"https://example.com/", "http://example.com/logo.png"}

\* what a HEAD request comes back with: a status, or no response at all
Outcomes ==
    {[failed |-> FALSE, StatusCode |-> code] : code \in {199, 200, 399, 400}}
        \cup {[failed |-> TRUE, StatusCode |-> 0]}

Networks == [ExternalURLs -> Outcomes]

CheckedHrefs ==
    {"#top", "mailto:me@example.com", "tel:+33123456789", "https://example.com/",
     "/posts/", "/assets", "missing.html", "/assets/logo.png#top"}

CheckedImages ==
    {"http://example.com/logo.png", "/assets/logo.png", "../assets/logo.png",
     "assets/missing.png", "/assets/logo.png/2x.png", "/assets/"}

CheckedScripts == {"https://example.com/", "/scripts/app.js", "scripts/app.js", "/scripts"}

\* the sequences of at most MaxRefs elements of a set
RefLists(refs) == UNION {[1..n -> refs] : n \in 0..MaxRefs}

\* a page whose body holds the given tags
PageOf(tags) == "<p>Text</p>" \o Concat(tags)

CheckedPages ==
    {PageOf([k \in 1..Len(l) |-> Anchor(l[k])]) : l \in RefLists(CheckedHrefs)}
        \cup {PageOf([k \in 1..Len(l) |-> "<img alt=\"\" src=\"" \o l[k] \o "\">"]) :
                  l \in RefLists(CheckedImages)}
        \cup {PageOf([k \in 1..Len(l) |-> "<script src=\"" \o l[k] \o "\"></script>"]) :
                  l \in RefLists(CheckedScripts)}

(***************************************************************************)
(* State                                                                   *)
(***************************************************************************)

VARIABLES
    sourceRelPath,      \* the source-relative path of the document at hand
    outputPath,         \* markdown.ResolveOutputPath of it, "" before the call
    legacyOutputPath,   \* main.go resolveOutputPath of it, "" before the call
    html,               \* the converted markup given to the link rewriter
    htmlCurrent,        \* markdown.ConvertMdLinksToHtml(html, sourceRelPath)
    htmlLegacy,         \* main.go convertMdLinksToHtml(html, sourceRelPath)
    styleConfig,        \* the loaded styling.Config
    elementType,        \* the element type GetClasses was asked about
    context,            \* the context GetClasses was asked about
    classes,            \* <<>> before the call, then <<the classes returned>>
    contentTree,        \* the files under the content directory
    profile,            \* what happens to each markdown document of the tree
    stylingFile,        \* the styling file: "absent", "valid" or "invalid"
    faultAt,            \* the directory the build cannot use, or "none"
    stylingConfig,      \* Generator.stylingConfig: <<>> for nil, else <<config>>
    sectionDirectoryNames, \* Generator.sectionDirectoryNames
    pagesGenerators,    \* Generator.pagesGenerators
    files,              \* the output tree: path -> content
    pc,                 \* the step of Generate the site generator is at
    idx,                \* the index of the range loop under way
    errs,               \* the errs slice of generatePages or Validate
    builds,             \* the calls of Generate so far
    returned,           \* <<>> while Generate runs, then <<its error>>
    filesAtCall,        \* the output tree when the current call started
    generated,          \* the page Generate calls of the current call
    generateReturn,     \* <<>>, then <<what generatePages returned>>
    validated,          \* the page Validate calls of the current call
    validateReturn,     \* <<>>, then <<what Validate returned>>
    document,           \* the nodes of a parsed markdown document, in walk order
    transformed,        \* <<>>, then <<the nodes after Transformer.Transform>>
    configData,         \* the mappings read from a style configuration file
    loadedConfig,       \* <<>>, then <<what ParseConfig returned>>
    sections,           \* the section list of the navigation substituter and validator
    currentSection,     \* the section path of the page being generated
    navigation,         \* <<>>, then <<the block the navigation substituter resolved>>
    page,               \* the content of a generated page
    navErrors,          \* <<>>, then <<the errors of the navigation validator>>
    registry,           \* the substituters registered, in registration order
    template,           \* the page template given to Apply
    pageContent,        \* the converted content given to Apply
    substituted,        \* <<>>, then <<what Resolve or Apply returned>>
    rootDir,            \* the content directory of the site generator
    walkedPath,         \* the path of a markdown file met by the walk
    pageSection,        \* <<>>, then <<what extractSection returned>>
    outputTree,         \* the entries of the build directory: path -> kind
    checkedPath,        \* the path of the page a validator is run on
    checkedPage,        \* the content of that page
    skipExternal,       \* Validator.SkipExternal
    responses,          \* what a HEAD request to each URL comes back with
    requests,           \* the URLs HEAD requests were made to, in order
    statCalls,          \* the paths the file system was asked about, in order
    reported            \* <<>>, then <<the errors the validator returned>>

linkVars == <<sourceRelPath, outputPath, legacyOutputPath, html, htmlCurrent, htmlLegacy>>

styleVars == <<styleConfig, elementType, context, classes>>

envVars == <<contentTree, profile, stylingFile, faultAt>>

siteVars == <<stylingConfig, sectionDirectoryNames, pagesGenerators, files, pc, idx, errs,
              builds, returned>>

historyVars == <<filesAtCall, generated, generateReturn, validated, validateReturn>>

buildVars == <<envVars, siteVars, historyVars>>

transformVars == <<document, transformed>>

loadVars == <<configData, loadedConfig>>

navVars == <<sections, currentSection, navigation, page, navErrors>>

substVars == <<registry, template, pageContent, substituted>>

sectionVars == <<rootDir, walkedPath, pageSection>>

checkVars == <<outputTree, checkedPath, checkedPage, skipExternal, responses, requests,
               statCalls, reported>>

auditVars == <<sectionVars, checkVars>>

pageVars == <<transformVars, loadVars, navVars, substVars, auditVars>>

vars == <<linkVars, styleVars, buildVars, pageVars>>

\* the variables of a component that takes no part in a specification
IdleLinks ==
    /\ sourceRelPath = ""
    /\ outputPath = ""
    /\ legacyOutputPath = ""
    /\ html = ""
    /\ htmlCurrent = ""
    /\ htmlLegacy = ""

IdleStyle ==
    /\ styleConfig = NewConfig
    /\ elementType = ""
    /\ context = ""
    /\ classes = <<>>

IdleTransform ==
    /\ document = <<>>
    /\ transformed = <<>>

IdleLoad ==
    /\ configData = NewConfig
    /\ loadedConfig = <<>>

IdleNav ==
    /\ sections = <<>>
    /\ currentSection = ""
    /\ navigation = <<>>
    /\ page = ""
    /\ navErrors = <<>>

IdleSubst ==
    /\ registry = <<>>
    /\ template = ""
    /\ pageContent = ""
    /\ substituted = <<>>

IdleSection ==
    /\ rootDir = ""
    /\ walkedPath = ""
    /\ pageSection = <<>>

IdleCheck ==
    /\ outputTree = <<>>
    /\ checkedPath = ""
    /\ checkedPage = ""
    /\ skipExternal = FALSE
    /\ responses = <<>>
    /\ requests = <<>>
    /\ statCalls = <<>>
    /\ reported = <<>>

IdleAudit ==
    /\ IdleSection
    /\ IdleCheck

IdlePage ==
    /\ IdleTransform
    /\ IdleLoad
    /\ IdleNav
    /\ IdleSubst
    /\ IdleAudit

\* site.NewGenerator and an empty history
NewSiteGenerator ==
    /\ stylingConfig = <<>>
    /\ sectionDirectoryNames = <<>>
    /\ pagesGenerators = <<>>
    /\ files = <<>>
    /\ pc = "idle"
    /\ idx = 0
    /\ errs = <<>>
    /\ builds = 0
    /\ returned = <<>>
    /\ filesAtCall = <<>>
    /\ generated = <<>>
    /\ generateReturn = <<>>
    /\ validated = <<>>
    /\ validateReturn = <<>>

IdleBuild ==
    /\ contentTree = {}
    /\ profile = <<>>
    /\ stylingFile = "absent"
    /\ faultAt = "none"
    /\ NewSiteGenerator

(***************************************************************************)
(* Path resolution and link rewriting of one document                      *)
(***************************************************************************)

InitLinks ==
    /\ sourceRelPath \in Docs
    /\ outputPath = ""
    /\ legacyOutputPath = ""
    /\ html = ""
    /\ htmlCurrent = ""
    /\ htmlLegacy = ""
    /\ IdleStyle
    /\ IdleBuild
    /\ IdlePage

\* the output path of the document is resolved
ResolvePath ==
    /\ outputPath = ""
    /\ outputPath' = ResolveOutputPath(sourceRelPath)
    /\ legacyOutputPath' = resolveOutputPath(sourceRelPath)
    /\ UNCHANGED <<sourceRelPath, html, htmlCurrent, htmlLegacy, styleVars, buildVars, pageVars>>

\* the converted markup of the document, holding one link, is rewritten
RewriteLinks ==
    \E link \in LinkTargets :
        /\ html = ""
        /\ html' = Anchor(link)
        /\ htmlCurrent' = ConvertMdLinksToHtml(html', sourceRelPath)
        /\ htmlLegacy' = convertMdLinksToHtml(html', sourceRelPath)
        /\ UNCHANGED <<sourceRelPath, outputPath, legacyOutputPath, styleVars, buildVars, pageVars>>

NextLinks == ResolvePath \/ RewriteLinks

SpecLinks == InitLinks /\ [][NextLinks]_vars

(***************************************************************************)
(* Properties of the Path Resolver and of the link rewriter                *)
(***************************************************************************)

IsExternal(link) == HasPrefix(link, "http://") \/ HasPrefix(link, "https://")

IsFragmentOnly(link) == HasPrefix(link, "#")

\* a relative reference to a markdown document
IsRelativeMdLink(link) ==
    /\ HasSuffix(link, ".md")
    /\ ~IsExternal(link)
    /\ ~IsFragmentOnly(link)
    /\ ~HasPrefix(link, "/")

\* the document a relative link of the document at hand designates
DesignatedDoc(link) == Clean(Dir(sourceRelPath) \o "/" \o link)

\* a path that stays inside the content tree
InTree(path) == path # ".." /\ ~HasPrefix(path, "../")

\* a link has been rewritten
Rewritten == html # ""

\* C1: a rewritten relative link from document A to a document B of the tree,
\* joined lexically to the directory of A's output path, is B's output path,
\* under the current resolver and under the legacy one alike
RoundTripHolds ==
    (Rewritten /\ IsRelativeMdLink(HrefOf(html)) /\ InTree(DesignatedDoc(HrefOf(html))))
        => /\ Join(Dir(ResolveOutputPath(sourceRelPath)), HrefOf(htmlCurrent))
                = ResolveOutputPath(DesignatedDoc(HrefOf(html)))
           /\ Join(Dir(resolveOutputPath(sourceRelPath)), HrefOf(htmlLegacy))
                = resolveOutputPath(DesignatedDoc(HrefOf(html)))

\* a nested document whose link climbs two directories to a root document
RoundTripWitness ==
    /\ sourceRelPath = "posts/post/hello.md"
    /\ html = Anchor("../../home.md")
    /\ HrefOf(htmlCurrent) = "../../home.html"
    /\ HrefOf(htmlLegacy) = "../../index.html"

\* the output path the four ordered rules of the Path Resolver give
RuleOutput(p) ==
    LET stem == Slice(p, 1, Len(p) - 3)
    IN  CASE p = "home.md" -> "index.html"
          [] p # "home.md" /\ p = "posts/index.md" -> "posts/index.html"
          [] p \notin {"home.md", "posts/index.md"} /\ Slice(p, 1, 6) = "posts/"
                -> "post/" \o Slice(stem, 7, Len(stem)) \o ".html"
          [] OTHER -> stem \o ".html"

\* C2: ResolveOutputPath follows the home, section-index, posts and default
\* rules in that order
ResolveOutputPathFollowsRules ==
    outputPath # "" => outputPath = RuleOutput(sourceRelPath)

\* C3: no other document of the tree gets the output path of the document at
\* hand
OutputPathsDistinct ==
    legacyOutputPath # "" =>
        \A other \in Docs \ {sourceRelPath} : resolveOutputPath(other) # legacyOutputPath

\* C4: an absolute http(s) URL or a fragment-only reference is returned
\* unchanged, whatever its suffix
ExternalAndFragmentUntouched ==
    (Rewritten /\ (IsExternal(HrefOf(html)) \/ IsFragmentOnly(HrefOf(html))))
        => htmlCurrent = html /\ htmlLegacy = html

(***************************************************************************)
(* Style resolution                                                        *)
(***************************************************************************)

InitStyle ==
    /\ styleConfig \in StyleConfigs
    /\ elementType = ""
    /\ context = ""
    /\ classes = <<>>
    /\ IdleLinks
    /\ IdleBuild
    /\ IdlePage

\* the converter asks for the classes of an element that has no inline class
AskClasses ==
    \E e \in QueriedElements, c \in QueriedContexts :
        /\ classes = <<>>
        /\ elementType' = e
        /\ context' = c
        /\ classes' = <<GetClasses(styleConfig, e, c)>>
        /\ UNCHANGED <<styleConfig, linkVars, buildVars, pageVars>>

NextStyle == AskClasses

SpecStyle == InitStyle /\ [][NextStyle]_vars

\* the queried context has an entry for the queried element type
HasContextEntry ==
    /\ context \in DOMAIN styleConfig.Contexts
    /\ elementType \in DOMAIN styleConfig.Contexts[context]

HasGlobalEntry == elementType \in DOMAIN styleConfig.Elements

\* C10 as stated: the context's entry whenever that context has one, then the
\* global entry, then the empty string
GetClassesPrecedence ==
    classes # <<>> =>
        /\ HasContextEntry => classes[1] = styleConfig.Contexts[context][elementType]
        /\ (~HasContextEntry /\ HasGlobalEntry) => classes[1] = styleConfig.Elements[elementType]
        /\ (~HasContextEntry /\ ~HasGlobalEntry) => classes[1] = ""

\* C10 amended: the entry of a non-empty context that has one, then the
\* global entry, then the empty string; the empty context name stands for
\* "no context" and its entries are never consulted
GetClassesPrecedenceNamedContext ==
    classes # <<>> =>
        /\ (context # "" /\ HasContextEntry)
              => classes[1] = styleConfig.Contexts[context][elementType]
        /\ (~(context # "" /\ HasContextEntry) /\ HasGlobalEntry)
              => classes[1] = styleConfig.Elements[elementType]
        /\ (~(context # "" /\ HasContextEntry) /\ ~HasGlobalEntry) => classes[1] = ""

\* a context entry wins over a global entry for the same element type
GetClassesWitness ==
    /\ classes = <<"context-class">>
    /\ context = "post"
    /\ HasContextEntry
    /\ HasGlobalEntry

(***************************************************************************)
(* Site generator: one Generator, Generate called up to MaxBuilds times    *)
(***************************************************************************)

InitSite ==
    /\ contentTree \in SUBSET ContentPool
    /\ profile \in [MdDocs(contentTree) -> Profiles]
    /\ stylingFile \in {"absent", "valid", "invalid"}
    /\ faultAt \in {"none", "mkdir", "content", "assets", "scripts"}
    /\ NewSiteGenerator
    /\ IdleLinks
    /\ IdleStyle
    /\ IdlePage

\* Generate returns err
Return(err) ==
    /\ pc' = "idle"
    /\ returned' = <<err>>

\* the profile of the document a page generator was made for
ProfileOf(g) == profile[Rel(DefaultContentDir, g.markdownPath)]

\* the top-level directories filepath.Walk meets in the content tree
TopLevelDirectories ==
    <<DefaultContentDir>> \o
    SelectSeq(<<Join(DefaultContentDir, "posts")>>,
              LAMBDA d : \E f \in contentTree : HasPrefix(Join(DefaultContentDir, f), d \o "/"))

\* copyDir of a directory holding the one file name
copyDir(name, content, dst, fs) == (Join(dst, name) :> content) @@ fs

\* Generate entered with the styling configuration loaded whatever it holds
LoadStylingConfigUnchecked ==
    /\ pc = "idle"
    /\ builds < MaxBuilds
    /\ builds' = builds + 1
    /\ filesAtCall' = files
    /\ generated' = <<>>
    /\ generateReturn' = <<>>
    /\ validated' = <<>>
    /\ validateReturn' = <<>>
    /\ returned' = <<>>
    /\ pc' = "makeAllDirectories"
    /\ stylingConfig' = IF stylingFile = "absent" THEN stylingConfig ELSE <<NewConfig>>
    /\ UNCHANGED <<envVars, sectionDirectoryNames, pagesGenerators, files, idx, errs,
                   linkVars, styleVars, pageVars>>

\* Generate is called: loadStylingConfig
LoadStylingConfig ==
    /\ pc = "idle"
    /\ builds < MaxBuilds
    /\ builds' = builds + 1
    /\ filesAtCall' = files
    /\ generated' = <<>>
    /\ generateReturn' = <<>>
    /\ validated' = <<>>
    /\ validateReturn' = <<>>
    /\ IF stylingFile = "invalid"
       THEN /\ Return(Errorf("failed to load styling configuration",
                             Errorf("failed to LoadConfig", NewError("invalid style config"))))
            /\ UNCHANGED stylingConfig
       ELSE /\ returned' = <<>>
            /\ pc' = "makeAllDirectories"
            /\ stylingConfig' = IF stylingFile = "valid" THEN <<NewConfig>> ELSE stylingConfig
    /\ UNCHANGED <<envVars, sectionDirectoryNames, pagesGenerators, files, idx, errs,
                   linkVars, styleVars, pageVars>>

\* makeAllDirectories
MakeAllDirectories ==
    /\ pc = "makeAllDirectories"
    /\ IF faultAt = "mkdir"
       THEN Return(Errorf("failed to create output directories",
                          Errorf("creating directory " \o DefaultBuildDir,
                                 NewError("permission denied"))))
       ELSE pc' = "listSections" /\ UNCHANGED returned
    /\ UNCHANGED <<envVars, stylingConfig, sectionDirectoryNames, pagesGenerators, files,
                   idx, errs, builds, historyVars, linkVars, styleVars, pageVars>>

\* listSections
ListSections ==
    /\ pc = "listSections"
    /\ IF faultAt = "content"
       THEN /\ Return(Errorf("Failed to list site sections", NewError("no such directory")))
            /\ UNCHANGED sectionDirectoryNames
       ELSE /\ pc' = "copyAssets"
            /\ sectionDirectoryNames' = sectionDirectoryNames \o TopLevelDirectories
            /\ UNCHANGED returned
    /\ UNCHANGED <<envVars, stylingConfig, pagesGenerators, files, idx, errs, builds,
                   historyVars, linkVars, styleVars, pageVars>>

\* copyAssets
CopyAssets ==
    /\ pc = "copyAssets"
    /\ IF faultAt = "assets"
       THEN /\ Return(Errorf("Failed to copy assets", NewError("no such directory")))
            /\ UNCHANGED files
       ELSE /\ pc' = "copyScripts"
            /\ files' = copyDir("logo.png", "png", Join(DefaultBuildDir, "assets"), files)
            /\ UNCHANGED returned
    /\ UNCHANGED <<envVars, stylingConfig, sectionDirectoryNames, pagesGenerators, idx, errs,
                   builds, historyVars, linkVars, styleVars, pageVars>>

\* copyScripts
CopyScripts ==
    /\ pc = "copyScripts"
    /\ IF faultAt = "scripts"
       THEN /\ Return(Errorf("Failed to copy scripts", NewError("no such directory")))
            /\ UNCHANGED files
       ELSE /\ pc' = "walk"
            /\ files' = copyDir("dark-mode.js", "js", Join(DefaultBuildDir, "scripts"), files)
            /\ UNCHANGED returned
    /\ UNCHANGED <<envVars, stylingConfig, sectionDirectoryNames, pagesGenerators, idx, errs,
                   builds, historyVars, linkVars, styleVars, pageVars>>

\* the errs slice the walk of generatePages leaves for the files walked
RECURSIVE WalkErrs(_)
WalkErrs(walked) ==
    IF Len(walked) = 0 THEN <<>>
    ELSE (IF HasSuffix(Head(walked), ".md") THEN <<>>
          ELSE <<NewError("wrong extension for file in "
                          \o Join(DefaultContentDir, Head(walked)))>>)
         \o WalkErrs(Tail(walked))

\* the page generators the walk of generatePages appends for the files walked
RECURSIVE WalkGenerators(_)
WalkGenerators(walked) ==
    IF Len(walked) = 0 THEN <<>>
    ELSE (IF HasSuffix(Head(walked), ".md")
          THEN LET pageFilePath == Join(DefaultContentDir, Head(walked))
               IN  <<NewGenerator(pageFilePath, DefaultBuildDir,
                                  extractSection(DefaultContentDir, pageFilePath))>>
          ELSE <<>>)
         \o WalkGenerators(Tail(walked))

\* generatePages: the walk of the content directory
WalkContent ==
    /\ pc = "walk"
    /\ IF faultAt = "content"
       THEN /\ errs' = <<NewError("no such directory")>>
            /\ UNCHANGED pagesGenerators
       ELSE /\ errs' = WalkErrs(Walked(contentTree))
            /\ pagesGenerators' = pagesGenerators \o WalkGenerators(Walked(contentTree))
    /\ idx' = 1
    /\ pc' = "generate"
    /\ UNCHANGED <<envVars, stylingConfig, sectionDirectoryNames, files, builds, returned,
                   historyVars, linkVars, styleVars, pageVars>>

\* generatePages: one turn of the loop over g.pagesGenerators
GeneratePage ==
    /\ pc = "generate"
    /\ idx <= Len(pagesGenerators)
    /\ \E out \in {PageGenerate(pagesGenerators[idx],
                                ProfileOf(pagesGenerators[idx]).cond, files)} :
           /\ files' = out.fs
           /\ pagesGenerators' = [pagesGenerators EXCEPT ![idx] = out.g]
           /\ errs' = IF out.err # Nil THEN Append(errs, out.err) ELSE errs
           /\ generated' = Append(generated,
                                  [doc |-> out.g.markdownPath, out |-> out.g.htmlOutputPath,
                                   content |-> out.content, applied |-> out.applied,
                                   err |-> out.err])
    /\ idx' = idx + 1
    /\ UNCHANGED <<envVars, stylingConfig, sectionDirectoryNames, pc, builds, returned,
                   filesAtCall, generateReturn, validated, validateReturn,
                   linkVars, styleVars, pageVars>>

\* generatePages returns; Generate returns its error or goes on to Validate
FinishGeneratePages ==
    /\ pc = "generate"
    /\ idx > Len(pagesGenerators)
    /\ IF Len(errs) # 0
       THEN /\ pagesGenerators' = <<>>
            /\ generateReturn' = <<ErrorsJoin(errs)>>
            /\ Return(Errorf("Failed to generate pages", ErrorsJoin(errs)))
            /\ UNCHANGED <<idx, errs>>
       ELSE /\ generateReturn' = <<Nil>>
            /\ pc' = "validate"
            /\ idx' = 1
            /\ errs' = <<>>
            /\ UNCHANGED <<pagesGenerators, returned>>
    /\ UNCHANGED <<envVars, stylingConfig, sectionDirectoryNames, files, builds,
                   filesAtCall, generated, validated, validateReturn, linkVars, styleVars, pageVars>>

\* Validate: one turn of the loop over g.pagesGenerators
ValidatePage ==
    /\ pc = "validate"
    /\ idx <= Len(pagesGenerators)
    /\ LET g == pagesGenerators[idx]
           findings == ProfileOf(g).findings
           err == PageValidate(g, findings)
       IN  /\ errs' = IF err # Nil THEN Append(errs, err) ELSE errs
           /\ validated' = Append(validated,
                                  [doc |-> g.markdownPath,
                                   outputs |-> [v \in 1..Len(Validators) |->
                                                   ValidatorOutput(v, findings[v], g.htmlOutputPath)],
                                   err |-> err])
    /\ idx' = idx + 1
    /\ UNCHANGED <<envVars, stylingConfig, sectionDirectoryNames, pagesGenerators, files, pc,
                   builds, returned, filesAtCall, generated, generateReturn, validateReturn,
                   linkVars, styleVars, pageVars>>

\* Validate returns, and Generate with it
FinishValidate ==
    /\ pc = "validate"
    /\ idx > Len(pagesGenerators)
    /\ IF Len(errs) > 0
       THEN /\ validateReturn' = <<ErrorsJoin(errs)>>
            /\ Return(Errorf("Failed to validate site", ErrorsJoin(errs)))
       ELSE /\ validateReturn' = <<Nil>>
            /\ Return(Nil)
    /\ UNCHANGED <<envVars, stylingConfig, sectionDirectoryNames, pagesGenerators, files,
                   idx, errs, builds, filesAtCall, generated, generateReturn, validated,
                   linkVars, styleVars, pageVars>>

NextSite ==
    \/ LoadStylingConfig
    \/ MakeAllDirectories
    \/ ListSections
    \/ CopyAssets
    \/ CopyScripts
    \/ WalkContent
    \/ GeneratePage
    \/ FinishGeneratePages
    \/ ValidatePage
    \/ FinishValidate

SpecSite == InitSite /\ [][NextSite]_vars

(***************************************************************************)
(* Properties of the page and site generators                              *)
(***************************************************************************)

\* some registered substituter's Resolve fails on content
ResolveFails(content) ==
    \E k \in 1..Len(NewSubstitutionRegistry) :
        Resolve(NewSubstitutionRegistry[k], content).err # Nil

\* the page Generate call the step just made, when it made one
JustGenerated == generated'[Len(generated')]

\* C5: if a registered substituter's Resolve fails while a page is generated,
\* Apply returns an error and no result, the page's Generate returns that
\* failure, and the step creates or modifies no output file.
SubstitutionFailureAbortsPage ==
    [][(/\ Len(generated') = Len(generated) + 1
        /\ JustGenerated.content # <<>>
        /\ ResolveFails(JustGenerated.content[1]))
       => /\ JustGenerated.applied[1].err # Nil
          /\ JustGenerated.applied[1].result = ""
          /\ JustGenerated.err =
                 Errorf("failed to project content inside the page template",
                        JustGenerated.applied[1].err)
          /\ files' = files]_vars

\* a page whose title substituter failed has been through Generate, its
\* Generate returned an error and its output file does not exist
SubstitutionFailureWitness ==
    \E k \in 1..Len(generated) :
        /\ generated[k].content # <<>>
        /\ ResolveFails(generated[k].content[1])
        /\ generated[k].err # Nil
        /\ generated[k].out \notin DOMAIN files
        /\ generated[k].doc = Join(DefaultContentDir, "index.md")

\* the members of a sequence of sequences one after the other
RECURSIVE Concatenated(_)
Concatenated(seqs) ==
    IF Len(seqs) = 0 THEN <<>> ELSE Head(seqs) \o Concatenated(Tail(seqs))

\* the messages of the errors validators returned
Messages(validatorErrors) == [k \in 1..Len(validatorErrors) |-> validatorErrors[k][1]]

\* a page's Validate kept every error of every validator, in registration order
KeepsEveryValidatorError(v) ==
    /\ (v.err = Nil) <=> (\A k \in 1..Len(v.outputs) : Len(v.outputs[k]) = 0)
    /\ v.err = Concatenated([k \in 1..Len(v.outputs) |-> Messages(v.outputs[k])])

\* C6: a page's registry Validate returns nil exactly when every validator
\* returns no error and otherwise holds every error of every validator in
\* registration order; the site Validate returns nil exactly when every page
\* validates and otherwise holds the errors of all failing pages.
ValidationDropsNoError ==
    /\ \A k \in 1..Len(validated) : KeepsEveryValidatorError(validated[k])
    /\ validateReturn # <<>> =>
           /\ (validateReturn[1] = Nil) <=> (\A k \in 1..Len(validated) : validated[k].err = Nil)
           /\ validateReturn[1] = Concatenated([k \in 1..Len(validated) |-> validated[k].err])
           /\ (validateReturn[1] # Nil) => returned[1] # Nil

\* the site Validate has returned with two failing pages, one of them with
\* errors from more than one validator
ValidationWitness ==
    /\ validateReturn # <<>>
    /\ Len(validated) >= 2
    /\ validated[1].err # Nil
    /\ Len(validated[2].err) >= 2
    /\ Len(validateReturn[1]) = Len(validated[1].err) + Len(validated[2].err)

\* the page Generate calls of the current build for the document doc
GenerateCalls(doc) ==
    {k \in 1..Len(generated) : generated[k].doc = Join(DefaultContentDir, doc)}

\* the page Validate calls of the current build for the page of doc
ValidateCalls(doc) == {k \in 1..Len(validated) : validated[k].doc = doc}

\* the errors of the page Generate calls that failed, in call order
GenerateFailures ==
    Concatenated([k \in 1..Len(generated) |-> generated[k].err])

\* t ends with s
EndsWith(t, s) == Len(t) >= Len(s) /\ SubSeq(t, Len(t) - Len(s) + 1, Len(t)) = s

\* C7: when generatePages returns, the page Generate of every markdown
\* document of the content tree has been invoked exactly once, whether or not
\* an earlier one failed, and the error returned holds every failure.
EveryDocumentGeneratedOnce ==
    generateReturn # <<>> =>
        /\ \A doc \in MdDocs(contentTree) : Cardinality(GenerateCalls(doc)) = 1
        /\ EndsWith(generateReturn[1], GenerateFailures)

\* C8: no page is validated before the generation of all pages has finished,
\* and when the validation of a build has run, it has run exactly once for
\* every page the build generated.
ValidatedOnceAfterGeneration ==
    /\ validated # <<>> =>
           /\ generateReturn # <<>>
           /\ \A doc \in MdDocs(contentTree) : GenerateCalls(doc) # {}
    /\ validateReturn # <<>> =>
           \A k \in 1..Len(generated) :
               generated[k].err = Nil => Cardinality(ValidateCalls(generated[k].doc)) = 1

\* the build cannot start: the styling file is invalid or the content
\* directory cannot be read
FatalSetup == stylingFile = "invalid" \/ faultAt = "content"

\* C9: with an invalid styling configuration or an unreadable content
\* directory no page generator is ever invoked, and Generate returns an error
\* with the output tree as it was when it was called.
FatalSetupWritesNoPage ==
    FatalSetup =>
        /\ generated = <<>>
        /\ returned # <<>> => (returned[1] # Nil /\ files = filesAtCall)

\* Generate has returned for a tree with documents and an invalid styling file
FatalSetupWitness ==
    /\ stylingFile = "invalid"
    /\ faultAt = "none"
    /\ MdDocs(contentTree) # {}
    /\ pc = "idle"
    /\ returned # <<>>
    /\ returned[1] # Nil

(***************************************************************************)
(* Style transformer: one document through Transformer.Transform           *)
(***************************************************************************)

InitTransform ==
    /\ styleConfig \in StyleConfigs
    /\ context \in ContextNames
    /\ elementType = ""
    /\ classes = <<>>
    /\ document \in Documents
    /\ transformed = <<>>
    /\ IdleLinks
    /\ IdleBuild
    /\ IdleLoad
    /\ IdleNav
    /\ IdleSubst
    /\ IdleAudit

\* the converter runs the transformer over the parsed document
TransformDocument ==
    /\ transformed = <<>>
    /\ transformed' = <<Transform(styleConfig, context, document)>>
    /\ UNCHANGED <<document, linkVars, styleVars, buildVars, loadVars, navVars, substVars, auditVars>>

NextTransform == TransformDocument

SpecTransform == InitTransform /\ [][NextTransform]_vars

\* C11: an element that carries an inline class keeps exactly that class
\* through Transform, and its other attributes with it, whatever the
\* configuration holds for its element type and context.
InlineClassKept ==
    transformed # <<>> =>
        \A k \in 1..Len(document) :
            "class" \in DOMAIN document[k].attributes =>
                transformed[1][k] = document[k]

\* a heading with an inline class has been through Transform with a
\* configuration that holds a context class and a global class for it
InlineClassWitness ==
    /\ transformed # <<>>
    /\ context = "post"
    /\ \E k \in 1..Len(document) :
           /\ document[k].kind = "Heading"
           /\ "class" \in DOMAIN document[k].attributes
           /\ GetClasses(styleConfig, NodeElementType(document[k]), context) = "context-class"
           /\ NodeElementType(document[k]) \in DOMAIN styleConfig.Elements
           /\ transformed[1][k].attributes["class"] = "inline-class"
    /\ \E k \in 1..Len(document) :
           /\ "class" \notin DOMAIN document[k].attributes
           /\ "class" \in DOMAIN transformed[1][k].attributes

(***************************************************************************)
(* Style configuration loading: ParseConfig on the mappings of one file    *)
(***************************************************************************)

InitLoad ==
    /\ configData \in ConfigFiles
    /\ loadedConfig = <<>>
    /\ IdleLinks
    /\ IdleStyle
    /\ IdleBuild
    /\ IdleTransform
    /\ IdleNav
    /\ IdleSubst
    /\ IdleAudit

\* LoadConfig: the file is parsed and validated, the maps being visited in
\* one of the orders a range loop can take
LoadConfig ==
    /\ loadedConfig = <<>>
    /\ \E invalidKeys \in InvalidKeys(configData) :
           loadedConfig' = <<ParseConfig(configData, invalidKeys)>>
    /\ UNCHANGED <<configData, linkVars, styleVars, buildVars, transformVars, navVars,
                   substVars, auditVars>>

NextLoad == LoadConfig

SpecLoad == InitLoad /\ [][NextLoad]_vars

\* the keys of the file outside the recognized element types, as Validate
\* names them
OffendingKeys ==
    {"elements." \o key : key \in DOMAIN configData.Elements \ validElementTypes}
        \cup UNION {{"contexts." \o name \o "." \o key :
                         key \in DOMAIN configData.Contexts[name] \ validElementTypes} :
                    name \in DOMAIN configData.Contexts}

InitNavigation ==
    /\ sections \in SectionLists
    /\ currentSection \in SectionPaths
    /\ navigation = <<>>
    /\ page = ""
    /\ navErrors = <<>>
    /\ IdleLinks
    /\ IdleStyle
    /\ IdleBuild
    /\ IdleTransform
    /\ IdleLoad
    /\ IdleSubst
    /\ IdleAudit

\* navigation Substituter.Resolve
ResolveNavigation ==
    /\ navigation = <<>>
    /\ page = ""
    /\ navigation' = <<NavigationResolve(sections, currentSection)>>
    /\ UNCHANGED <<sections, currentSection, page, navErrors, linkVars, styleVars, buildVars,
                   transformVars, loadVars, substVars, auditVars>>

\* the resolved block replaces the placeholder of the template
ProjectNavigation ==
    /\ navigation # <<>>
    /\ page = ""
    /\ page' = ReplaceAll(NavigationTemplate, "{{navigation}}", navigation[1])
    /\ UNCHANGED <<sections, currentSection, navigation, navErrors, linkVars, styleVars,
                   buildVars, transformVars, loadVars, substVars, auditVars>>

\* the page comes from a template whose navigation was written by hand
WriteNavigationByHand ==
    /\ navigation = <<>>
    /\ page = ""
    /\ page' \in HandWrittenPages(sections, currentSection)
    /\ UNCHANGED <<sections, currentSection, navigation, navErrors, linkVars, styleVars,
                   buildVars, transformVars, loadVars, substVars, auditVars>>

\* navigation Validator.Validate on the page
ValidateNavigation ==
    /\ page # ""
    /\ navErrors = <<>>
    /\ navErrors' = <<NavigationValidate(sections, "index.html", page)>>
    /\ UNCHANGED <<sections, currentSection, navigation, page, linkVars, styleVars,
                   buildVars, transformVars, loadVars, substVars, auditVars>>

NextNavigation ==
    \/ ResolveNavigation
    \/ ProjectNavigation
    \/ WriteNavigationByHand
    \/ ValidateNavigation

SpecNavigation == InitNavigation /\ [][NextNavigation]_vars

\* the values of the href attributes of markup, from position i on
RECURSIVE HrefsFrom(_, _)
HrefsFrom(markup, i) ==
    LET h == IndexFrom(markup, "href=\"", i)
        q == IndexFrom(markup, "\"", h + 6)
    IN  IF h = 0 THEN <<>>
        ELSE IF q = 0 THEN <<>>
        ELSE <<Slice(markup, h + 6, q - 1)>> \o HrefsFrom(markup, q + 1)

\* the anchors of markup from position i on: their hrefs and labels
RECURSIVE AnchorsFrom(_, _)
AnchorsFrom(markup, i) ==
    LET a == IndexFrom(markup, "<a ", i)
        g == IndexFrom(markup, ">", a)
        e == IndexFrom(markup, "</a>", g)
    IN  IF a = 0 THEN <<>>
        ELSE IF g = 0 \/ e = 0 THEN <<>>
        ELSE <<[href |-> HrefsFrom(Slice(markup, a, g), 1), label |-> Slice(markup, g + 1, e - 1)]>>
                 \o AnchorsFrom(markup, e + 4)

\* the depth of a section path: the number of its segments
SectionDepth(section) == IF section = "" THEN 0 ELSE Len(SplitPath(section))

\* C13: every href of the resolved navigation block, home and sections,
\* starts with exactly as many ../ segments as the current section path has
\* segments.
NavigationDepth ==
    navigation # <<>> =>
        LET hrefs == HrefsFrom(navigation[1], 1)
        IN  /\ Len(hrefs) = 1 + Len(sections)
            /\ \A k \in 1..Len(hrefs) : UpCount(hrefs[k]) = SectionDepth(currentSection)

\* a block with two section entries has been resolved for a page two levels
\* down
NavigationDepthWitness ==
    /\ navigation # <<>>
    /\ Len(sections) = 2
    /\ SectionDepth(currentSection) = 2
    /\ HasPrefix(HrefsFrom(navigation[1], 1)[3], "../../")

\* the label of each section: its name with the first character capitalized
SectionLabels == [posts |-> "Posts", about |-> "About"]

\* C14: the resolved block holds the home entry, then one entry per section
\* in the order of the section list, each targeting <section>/index.html
\* and labelled with the capitalized section name, and nothing else.
NavigationEntries ==
    navigation # <<>> =>
        LET entries == AnchorsFrom(navigation[1], 1)
        IN  /\ Len(entries) = 1 + Len(sections)
            /\ \A k \in 1..Len(entries) : Len(entries[k].href) = 1
            /\ Remaining(entries[1].href[1]) = "index.html"
            /\ entries[1].label = "Accueil"
            /\ \A k \in 1..Len(sections) :
                   /\ Remaining(entries[k + 1].href[1]) = sections[k] \o "/index.html"
                   /\ entries[k + 1].label = SectionLabels[sections[k]]

\* a block has been resolved for the sections about and posts, in that order
NavigationEntriesWitness ==
    /\ navigation # <<>>
    /\ sections = <<"about", "posts">>
    /\ AnchorsFrom(navigation[1], 1)[3].label = "Posts"

\* the page has a navigation block whose content the validator's claim accepts
NavigationComplete ==
    /\ NavMatch(page) # <<>>
    /\ LET navContent == NavMatch(page)[1]
           hrefs == HrefsFrom(navContent, 1)
       IN  /\ Contains(navContent, "Accueil")
           /\ \E k \in 1..Len(hrefs) : Remaining(hrefs[k]) = "index.html"
           /\ \A s \in 1..Len(sections) :
                  /\ \E k \in 1..Len(hrefs) : Contains(hrefs[k], sections[s] \o "/index.html")
                  /\ Contains(navContent, SectionLabels[sections[s]])

\* C15: the navigation validator reports no error exactly when the page has
\* a navigation block with the home label, a home href (../)*index.html and,
\* for every section, an href containing <section>/index.html and the
\* capitalized section name; without a navigation block it reports one error.
NavigationValidatorExact ==
    navErrors # <<>> =>
        /\ (navErrors[1] = <<>>) <=> NavigationComplete
        /\ (NavMatch(page) = <<>>) => Len(navErrors[1]) = 1

(***************************************************************************)
(* Substitution: the title is resolved from a page content, and a          *)
(* registry is applied to a template                                       *)
(***************************************************************************)

InitSubst ==
    /\ registry \in Registries
    /\ template \in Templates
    /\ pageContent \in PageContents
    /\ substituted = <<>>
    /\ IdleLinks
    /\ IdleStyle
    /\ IdleBuild
    /\ IdleTransform
    /\ IdleLoad
    /\ IdleNav
    /\ IdleAudit

\* title Substituter.Resolve on the page content
ResolveTitle ==
    /\ substituted = <<>>
    /\ \E out \in {TitleResolve(pageContent)} :
           substituted' = <<[op |-> "title", value |-> out.value, err |-> out.err]>>
    /\ UNCHANGED <<registry, template, pageContent, linkVars, styleVars, buildVars,
                   transformVars, loadVars, navVars, auditVars>>

\* Registry.Apply of the registry to the template and the page content
ApplyRegistry ==
    /\ substituted = <<>>
    /\ \E out \in {Apply(registry, template, pageContent)} :
           substituted' = <<[op |-> "apply", value |-> out.result, err |-> out.err]>>
    /\ UNCHANGED <<registry, template, pageContent, linkVars, styleVars, buildVars,
                   transformVars, loadVars, navVars, auditVars>>

NextSubst ==
    \/ ResolveTitle
    \/ ApplyRegistry

SpecSubst == InitSubst /\ [][NextSubst]_vars

\* the start of the first top-level heading element of content, 0 if none
RECURSIVE HeadingStartFrom(_, _)
HeadingStartFrom(content, i) ==
    LET t == IndexFrom(content, "<h1", i)
    IN  IF t = 0 THEN 0
        ELSE IF Slice(content, t + 3, t + 3) \in {">", " "} /\ IndexFrom(content, "</h1>", t) # 0
        THEN t
        ELSE HeadingStartFrom(content, t + 1)

\* markup without its tags, from position i on
RECURSIVE TextFrom(_, _)
TextFrom(markup, i) ==
    LET l == IndexFrom(markup, "<", i)
        g == IndexFrom(markup, ">", l)
    IN  IF l = 0 \/ g = 0 THEN Slice(markup, i, Len(markup))
        ELSE Slice(markup, i, l - 1) \o TextFrom(markup, g + 1)

\* the text of the first top-level heading of content
FirstHeadingText(content) ==
    LET t == HeadingStartFrom(content, 1)
        g == IndexFrom(content, ">", t)
        e == IndexFrom(content, "</h1>", t)
    IN  TextFrom(Slice(content, g + 1, e - 1), 1)

\* C16: title resolution fails with the missing-title error exactly when the
\* page has no top-level heading; otherwise it returns the text of the first
\* top-level heading, and a failed resolution carries no title.
TitleFailsExactlyWithoutHeading ==
    (substituted # <<>> /\ substituted[1].op = "title") =>
        IF HeadingStartFrom(pageContent, 1) = 0
        THEN /\ substituted[1].err = NewError("Could not find a page title")
             /\ substituted[1].value = ""
        ELSE /\ substituted[1].err = Nil
             /\ substituted[1].value = FirstHeadingText(pageContent)

\* the registered substituters whose placeholder occurs in markup from
\* position i on
OccurringFrom(subs, markup, i) ==
    {k \in 1..Len(subs) : IndexFrom(markup, Placeholder(subs[k]), i) # 0}

\* the template from position i on with every occurrence of a registered
\* placeholder replaced by the value its substituter resolves
RECURSIVE ReplacedAtOnceFrom(_, _, _, _)
ReplacedAtOnceFrom(subs, markup, content, i) ==
    LET occurring == OccurringFrom(subs, markup, i)
    IN  IF occurring = {} THEN Slice(markup, i, Len(markup))
        ELSE LET k == CHOOSE k \in occurring : \A j \in occurring :
                          IndexFrom(markup, Placeholder(subs[k]), i)
                              <= IndexFrom(markup, Placeholder(subs[j]), i)
                 at == IndexFrom(markup, Placeholder(subs[k]), i)
             IN  Slice(markup, i, at - 1) \o Resolve(subs[k], content).value
                     \o ReplacedAtOnceFrom(subs, markup, content, at + Len(Placeholder(subs[k])))

\* every registered substituter resolves the page content without error
AllResolve == \A k \in 1..Len(registry) : Resolve(registry[k], pageContent).err = Nil

\* C17: when every substituter resolves, Apply returns the template with
\* every occurrence of each registered placeholder replaced by the value that
\* substituter resolved, the same value at every occurrence.
ApplyReplacesEveryOccurrence ==
    (substituted # <<>> /\ substituted[1].op = "apply" /\ AllResolve) =>
        /\ substituted[1].err = Nil
        /\ substituted[1].value = ReplacedAtOnceFrom(registry, template, pageContent, 1)

\* a registry without its k-th substituter
Unregistered(subs, k) == SubSeq(subs, 1, k - 1) \o SubSeq(subs, k + 1, Len(subs))

\* C18: a registered substituter whose placeholder does not occur in the
\* template has no effect, Apply returns what it returns without that
\* substituter, and a template with no registered placeholder is returned
\* unchanged.
AbsentPlaceholderIgnored ==
    (substituted # <<>> /\ substituted[1].op = "apply") =>
        /\ \A k \in 1..Len(registry) :
               ~Contains(template, Placeholder(registry[k])) =>
                   \E out \in {Apply(Unregistered(registry, k), template, pageContent)} :
                       /\ substituted[1].value = out.result
                       /\ substituted[1].err = out.err
        /\ OccurringFrom(registry, template, 1) = {} =>
               /\ substituted[1].err = Nil
               /\ substituted[1].value = template

(***************************************************************************)
(* Assets: the markup of a document holding one image is rewritten, by     *)
(* ConvertAssetPaths with the document's path and by the content           *)
(* substituter                                                             *)
(***************************************************************************)

InitAssets ==
    /\ sourceRelPath \in Docs
    /\ outputPath = ""
    /\ legacyOutputPath = ""
    /\ html = ""
    /\ htmlCurrent = ""
    /\ htmlLegacy = ""
    /\ IdleStyle
    /\ IdleBuild
    /\ IdlePage

\* the document is converted to markup holding one image
ConvertPage ==
    \E src \in ImageSources : \E tag \in ImgTags(src) :
        /\ html = ""
        /\ html' = tag
        /\ UNCHANGED <<sourceRelPath, outputPath, legacyOutputPath, htmlCurrent, htmlLegacy,
                       styleVars, buildVars, pageVars>>

\* markdown.ConvertAssetPaths on the markup, with the path of the document
RewriteAssets ==
    /\ html # ""
    /\ htmlCurrent = ""
    /\ htmlCurrent' = ConvertAssetPaths(html, sourceRelPath)
    /\ UNCHANGED <<sourceRelPath, outputPath, legacyOutputPath, html, htmlLegacy,
                   styleVars, buildVars, pageVars>>

\* content Substituter.Resolve on the markup
ResolveContent ==
    /\ html # ""
    /\ substituted = <<>>
    /\ \E out \in {ContentResolve(html)} :
           substituted' = <<[op |-> "content", value |-> out.value, err |-> out.err]>>
    /\ UNCHANGED <<linkVars, registry, template, pageContent, styleVars, buildVars,
                   transformVars, loadVars, navVars, auditVars>>

NextAssets ==
    \/ ConvertPage
    \/ RewriteAssets
    \/ ResolveContent

SpecAssets == InitAssets /\ [][NextAssets]_vars

\* the value of the src attribute of the image of a markup
SrcOf(markup) ==
    LET i == IndexFrom(markup, "src=\"", 1)
        q == IndexFrom(markup, "\"", i + 5)
    IN  IF i = 0 \/ q = 0 THEN "" ELSE Slice(markup, i + 5, q - 1)

\* the image of the document refers to a file of the assets directory
RefersToAsset == \E name \in AssetNames : SrcOf(html) = AssetReference(sourceRelPath, name)

\* the name of the file of the assets directory the image refers to
AssetReferredTo == CHOOSE name \in AssetNames : SrcOf(html) = AssetReference(sourceRelPath, name)

\* the page generator site.Generator makes for the document
GeneratorOf(doc) ==
    LET pageFilePath == Join(DefaultContentDir, doc)
    IN  NewGenerator(pageFilePath, DefaultBuildDir, extractSection(DefaultContentDir, pageFilePath))

\* C19: a reference with leading ../ to a file of the assets directory is
\* rewritten so that, from the directory of the page's output, it designates
\* the copy of that file in the output tree: under ConvertAssetPaths with
\* the document's path, and in the page the content substituter produces.
AssetReferenceFollowsAsset ==
    RefersToAsset =>
        /\ htmlCurrent # "" =>
               Clean(Join(Dir(ResolveOutputPath(sourceRelPath)), SrcOf(htmlCurrent)))
                   = Join("assets", AssetReferredTo)
        /\ substituted # <<>> =>
               Clean(Join(Dir(GeneratorOf(sourceRelPath).htmlOutputPath), SrcOf(substituted[1].value)))
                   = Join3(DefaultBuildDir, "assets", AssetReferredTo)

\* the image source is one the rewriter is to leave alone
LeftAlone(src) ==
    \/ ~Contains(src, "../")
    \/ HasPrefix(src, "/")
    \/ HasPrefix(src, "http://")
    \/ HasPrefix(src, "https://")

\* C20: ConvertAssetPaths leaves the markup unchanged when the image source
\* has no ../, is absolute or is an http(s) URL; it only rewrites relative
\* sources with an upward traversal.
OtherSourcesUnchanged ==
    /\ (htmlCurrent # "" /\ LeftAlone(SrcOf(html))) => htmlCurrent = html
    /\ (substituted # <<>> /\ LeftAlone(SrcOf(html))) => substituted[1].value = html

\* an external source, an absolute one and one without ../ went through
\* ConvertAssetPaths for a document of a section
OtherSourcesWitness ==
    /\ htmlCurrent # ""
    /\ SrcOf(html) \in {"http://example.com/../img.png", "/images/logo.png", "image.png"}
    /\ Len(SplitPath(sourceRelPath)) > 1
    /\ htmlCurrent = html

\* a registry with its substituters in the opposite order
RECURSIVE Reversed(_)
Reversed(subs) == IF subs = <<>> THEN <<>> ELSE Reversed(Tail(subs)) \o <<Head(subs)>>

\* C29: what Apply returns does not depend on the registration order of the
\* substituters, and a placeholder token inside a resolved value is emitted
\* as it is: the result is the template with every occurrence replaced at
\* once.
ApplyOrderIndependent ==
    (substituted # <<>> /\ substituted[1].op = "apply") =>
        /\ \E out \in {Apply(Reversed(registry), template, pageContent)} :
               /\ substituted[1].value = out.result
               /\ (substituted[1].err = Nil) <=> (out.err = Nil)
        /\ AllResolve =>
               substituted[1].value = ReplacedAtOnceFrom(registry, template, pageContent, 1)

\* the page generators the site generator holds for the document doc
GeneratorsHeld(doc) ==
    {k \in 1..Len(pagesGenerators) : pagesGenerators[k].markdownPath = Join(DefaultContentDir, doc)}

\* the entries the site generator holds for the section directory dir
SectionEntriesHeld(dir) ==
    {k \in 1..Len(sectionDirectoryNames) : sectionDirectoryNames[k] = dir}

\* C30: in every call of Generate on the same site generator, the generator
\* holds at most one page generator per markdown document and one entry per
\* section directory, and a call whose validation has returned has generated
\* and validated every document exactly once.
NothingRetainedAcrossCalls ==
    /\ \A doc \in MdDocs(contentTree) : Cardinality(GeneratorsHeld(doc)) <= 1
    /\ \A k \in 1..Len(sectionDirectoryNames) :
           Cardinality(SectionEntriesHeld(sectionDirectoryNames[k])) = 1
    /\ validateReturn # <<>> =>
           \A doc \in MdDocs(contentTree) :
               /\ Cardinality(GenerateCalls(doc)) = 1
               /\ Cardinality(ValidateCalls(Join(DefaultContentDir, doc))) = 1

(***************************************************************************)
(* Sections: the walk of the content directory meets a markdown file and   *)
(* its section is extracted                                                *)
(***************************************************************************)

InitSection ==
    /\ rootDir \in ContentDirs
    /\ walkedPath \in {Join(rootDir, doc) : doc \in Docs}
    /\ pageSection = <<>>
    /\ IdleLinks
    /\ IdleStyle
    /\ IdleBuild
    /\ IdleTransform
    /\ IdleLoad
    /\ IdleNav
    /\ IdleSubst
    /\ IdleCheck

\* extractSection on the file the walk is at
ExtractSection ==
    /\ pageSection = <<>>
    /\ pageSection' = <<extractSection(rootDir, walkedPath)>>
    /\ UNCHANGED <<rootDir, walkedPath, linkVars, styleVars, buildVars, transformVars,
                   loadVars, navVars, substVars, checkVars>>

NextSection == ExtractSection

SpecSection == InitSection /\ [][NextSection]_vars

\* the segments of the path of the walked file below the content directory
SegmentsBelowRoot ==
    SplitPath(CHOOSE doc \in Docs : Join(rootDir, doc) = walkedPath)

\* C27 as stated: the section of a document is the first segment of its path
\* relative to the content directory, and empty for a document at the root.
SectionIsFirstSegment ==
    pageSection # <<>> =>
        pageSection[1] = IF Len(SegmentsBelowRoot) = 1 THEN "" ELSE SegmentsBelowRoot[1]

\* C27: the section of a document is the directory part of its path relative
\* to the content directory, every segment before the file name, and empty
\* for a document at the root; it is the first segment for documents one
\* level down.
SectionIsDirectory ==
    pageSection # <<>> =>
        /\ pageSection[1] = JoinSlash(SubSeq(SegmentsBelowRoot, 1, Len(SegmentsBelowRoot) - 1))
        /\ Len(SegmentsBelowRoot) = 2 => pageSection[1] = SegmentsBelowRoot[1]

\* the section of a document two levels down has been extracted
SectionWitness ==
    /\ pageSection # <<>>
    /\ Len(SegmentsBelowRoot) = 3
    /\ rootDir = DefaultContentDir
    /\ pageSection[1] = "posts/post"

\* C28: the page that holds the block the navigation substituter resolved
\* for a section list and a section path gets no error from the navigation
\* validator configured with the same section list.
ResolvedNavigationAccepted ==
    (navigation # <<>> /\ page # "" /\ navErrors # <<>>) =>
        /\ Contains(page, navigation[1])
        /\ navErrors[1] = <<>>

\* the block resolved for two sections and a page two levels down has been
\* validated
ResolvedNavigationWitness ==
    /\ navigation # <<>>
    /\ navErrors = <<<<>>>>
    /\ sections = <<"posts", "about">>
    /\ SectionDepth(currentSection) = 2
    /\ Contains(page, "href=\"../../about/index.html\"")

(***************************************************************************)
(* Reference Rewriter: both conversions in a row, with the path of the     *)
(* document and as the content substituter calls them                      *)
(***************************************************************************)

InitRewriter ==
    /\ sourceRelPath \in Docs
    /\ outputPath = ""
    /\ legacyOutputPath = ""
    /\ html = ""
    /\ htmlCurrent = ""
    /\ htmlLegacy = ""
    /\ IdleStyle
    /\ IdleBuild
    /\ IdlePage

\* the document is converted to markup
ConvertMarkup ==
    \E markup \in Markups :
        /\ html = ""
        /\ html' = markup
        /\ UNCHANGED <<sourceRelPath, outputPath, legacyOutputPath, htmlCurrent, htmlLegacy,
                       styleVars, buildVars, pageVars>>

\* ConvertMdLinksToHtml, then ConvertAssetPaths, with the path of the document
RewriteReferences ==
    /\ html # ""
    /\ htmlCurrent = ""
    /\ htmlCurrent' = ConvertAssetPaths(ConvertMdLinksToHtml(html, sourceRelPath), sourceRelPath)
    /\ UNCHANGED <<sourceRelPath, outputPath, legacyOutputPath, html, htmlLegacy,
                   styleVars, buildVars, pageVars>>

NextRewriter ==
    \/ ConvertMarkup
    \/ RewriteReferences
    \/ ResolveContent

SpecRewriter == InitRewriter /\ [][NextRewriter]_vars

\* the markup of the document holds a reference ending in .md
HasMdReference ==
    \/ \E k \in 1..Len(HrefsFrom(html, 1)) : HasSuffix(HrefsFrom(html, 1)[k], ".md")
    \/ HasSuffix(SrcOf(html), ".md")

\* the rewriter returned the markup as it was, in both ways of calling it
RewriterLeftMarkup ==
    /\ htmlCurrent # "" => htmlCurrent = html
    /\ substituted # <<>> => substituted[1].value = html

\* C21 as stated: markup without a reference ending in .md comes back
\* unchanged from the two conversions, for every source path.
NoMdReferenceNoChange == ~HasMdReference => RewriterLeftMarkup

\* C21: markup without a reference ending in .md and without an image source
\* that starts with ../ comes back unchanged from the two conversions, for
\* every source path.
NoMdNoClimbingImageNoChange ==
    (~HasMdReference /\ ~HasPrefix(SrcOf(html), "../")) => RewriterLeftMarkup

\* markup with an external link and an image beside the page went through
\* both conversions for a document of a section
NoChangeWitness ==
    /\ html = Anchor("https://example.com") \o "<img src=\"image.png\">"
    /\ Len(SplitPath(sourceRelPath)) = 2
    /\ htmlCurrent = html

(***************************************************************************)
(* Validators: one generated page of an output tree goes through the link, *)
(* the image or the script validator                                       *)
(***************************************************************************)

InitCheck ==
    /\ checkedPath \in CheckedPaths
    /\ outputTree \in OutputTrees(checkedPath)
    /\ checkedPage \in CheckedPages
    /\ skipExternal \in BOOLEAN
    /\ responses \in Networks
    /\ requests = <<>>
    /\ statCalls = <<>>
    /\ reported = <<>>
    /\ IdleLinks
    /\ IdleStyle
    /\ IdleBuild
    /\ IdleTransform
    /\ IdleLoad
    /\ IdleNav
    /\ IdleSubst
    /\ IdleSection

\* what one validator did on the page
Checked(validator, out) ==
    /\ reported' = <<[validator |-> validator, errs |-> out.errs]>>
    /\ statCalls' = out.stats
    /\ requests' = out.heads
    /\ UNCHANGED <<outputTree, checkedPath, checkedPage, skipExternal, responses,
                   linkVars, styleVars, buildVars, transformVars, loadVars, navVars,
                   substVars, sectionVars>>

\* link Validator.Validate on the page
ValidateLinks ==
    /\ reported = <<>>
    /\ \E out \in {LinkValidate(checkedPath, BuildDir, checkedPage, outputTree,
                                skipExternal, responses)} :
           Checked("link", out)

\* image Validator.Validate on the page
ValidateImages ==
    /\ reported = <<>>
    /\ \E out \in {ImageValidate(checkedPath, BuildDir, checkedPage, outputTree,
                                 skipExternal, responses)} :
           Checked("image", out)

\* script Validator.Validate on the page
ValidateScripts ==
    /\ reported = <<>>
    /\ \E out \in {ScriptValidate(checkedPath, BuildDir, checkedPage, outputTree)} :
           Checked("script", out)

NextCheck ==
    \/ ValidateLinks
    \/ ValidateImages
    \/ ValidateScripts

SpecCheck == InitCheck /\ [][NextCheck]_vars

\* the values of the src attributes of a markup from position i on
RECURSIVE SrcsFrom(_, _)
SrcsFrom(markup, i) ==
    LET h == IndexFrom(markup, "src=\"", i)
        q == IndexFrom(markup, "\"", h + 5)
    IN  IF h = 0 THEN <<>>
        ELSE IF q = 0 THEN <<>>
        ELSE <<Slice(markup, h + 5, q - 1)>> \o SrcsFrom(markup, q + 1)

\* the references of the page a validator looks at
RefsOf(validator) ==
    IF validator = "link" THEN HrefsFrom(checkedPage, 1)
    ELSE IF Contains(checkedPage, IF validator = "image" THEN "<img" ELSE "<script")
         THEN SrcsFrom(checkedPage, 1)
         ELSE <<>>

\* the validator has run
Ran(validator) == reported # <<>> /\ reported[1].validator = validator

\* the number of elements of a sequence that satisfy a test
Count(seq, Test(_)) == Cardinality({k \in 1..Len(seq) : Test(seq[k])})

\* the errors reported about reference ref, and the references equal to it
ErrorsAbout(ref) ==
    Count(reported[1].errs, LAMBDA e : Contains(e[1], ": " \o ref \o " (") \/ HasSuffix(e[1], ": " \o ref))

Occurrences(ref, validator) == Count(RefsOf(validator), LAMBDA r : r = ref)

\* C23: a link target that is only a fragment, or a mailto: or tel: target,
\* gives no validation error, no file-system lookup and no request,
\* whatever the output tree holds.
SkippedTargetsUnchecked ==
    Ran("link") =>
        \A k \in 1..Len(RefsOf("link")) :
            LET href == RefsOf("link")[k]
            IN  (HasPrefix(href, "#") \/ HasPrefix(href, "mailto:") \/ HasPrefix(href, "tel:")) =>
                    /\ ErrorsAbout(href) = 0
                    /\ \A c \in 1..Len(statCalls) : statCalls[c].ref # href
                    /\ \A c \in 1..Len(requests) : requests[c].ref # href

\* a page with a mailto: target and a missing local target went through the
\* link validator: only the second one was looked up and reported
SkippedTargetsWitness ==
    /\ Ran("link")
    /\ RefsOf("link") = <<"mailto:me@example.com", "missing.html">>
    /\ Len(reported[1].errs) = 1
    /\ Len(statCalls) > 0

\* the path a local reference of the checked page designates in the tree
PathOf(ref) == Clean(Join(IF HasPrefix(ref, "/") THEN BuildDir ELSE Dir(checkedPath), ref))

\* the same for a link target, whose fragment does not count
TargetOf(href) == PathOf(BeforeFragment(href))

\* a reference the validators check against the output tree
IsLocal(ref) ==
    /\ ~isExternalURL(ref)
    /\ ~(HasPrefix(ref, "#") \/ HasPrefix(ref, "mailto:") \/ HasPrefix(ref, "tel:")
            \/ HasPrefix(ref, "javascript:"))

\* the target is a file, or an extensionless directory holding index.html
FileOrIndexedDirectory(path) ==
    \/ path \in DOMAIN outputTree
    \/ /\ Ext(path) = ""
       /\ Join(path, "index.html") \in DOMAIN outputTree

\* C22: a local link target, its fragment removed and resolved against the
\* build root when it starts with / and against the directory of the page
\* otherwise, is accepted exactly when it is a file or an extensionless
\* directory holding index.html; any other local target gives exactly one
\* error for that link.
LocalLinkAcceptedIffTargetExists ==
    Ran("link") =>
        \A k \in 1..Len(RefsOf("link")) :
            LET href == RefsOf("link")[k]
            IN  IsLocal(href) =>
                    ErrorsAbout(href) = IF FileOrIndexedDirectory(TargetOf(href)) THEN 0
                                        ELSE Occurrences(href, "link")

\* the validator that ran is the link or the image validator
RanLinkOrImage == Ran("link") \/ Ran("image")

\* the HEAD requests sent for reference ref
RequestsFor(ref) == Count(requests, LAMBDA c : c.ref = ref)

\* C24: an external (http or https) link or image gives no error exactly
\* when its HEAD request comes back with a status from 200 to 399; any other
\* status, or a transport error, gives exactly one validation error for that
\* reference, in the list the validator returns; with the skip-external flag
\* set, an external reference gives no error and no request is sent.
ExternalAcceptedIffStatusOk ==
    RanLinkOrImage =>
        \A k \in 1..Len(RefsOf(reported[1].validator)) :
            LET ref == RefsOf(reported[1].validator)[k]
                times == Occurrences(ref, reported[1].validator)
                resp == responses[ref]
            IN  (HasPrefix(ref, "http://") \/ HasPrefix(ref, "https://")) =>
                    IF skipExternal
                    THEN ErrorsAbout(ref) = 0 /\ RequestsFor(ref) = 0
                    ELSE /\ RequestsFor(ref) = times
                         /\ ErrorsAbout(ref) =
                                IF ~resp.failed /\ resp.StatusCode >= 200 /\ resp.StatusCode <= 399
                                THEN 0 ELSE times

\* an image page with one external image whose HEAD request came back with
\* status 400 was validated with external checks on: one request, one error
ExternalStatusWitness ==
    /\ Ran("image")
    /\ ~skipExternal
    /\ RefsOf("image") = <<"http://example.com/logo.png">>
    /\ ~responses["http://example.com/logo.png"].failed
    /\ responses["http://example.com/logo.png"].StatusCode = 400
    /\ Len(requests) = 1
    /\ Len(reported[1].errs) = 1

\* C25: the image validator returns exactly one error for each image
\* reference whose local target is not a file of the output tree, the error
\* naming the source of that image, and no error at all for a page without
\* image reference or whose local images all exist.
MissingImagesReported ==
    Ran("image") =>
        /\ \A k \in 1..Len(RefsOf("image")) :
               LET src == RefsOf("image")[k]
               IN  IsLocal(src) =>
                       ErrorsAbout(src) = IF PathOf(src) \in DOMAIN outputTree THEN 0
                                          ELSE Occurrences(src, "image")
        /\ (\A k \in 1..Len(RefsOf("image")) :
                /\ IsLocal(RefsOf("image")[k])
                /\ PathOf(RefsOf("image")[k]) \in DOMAIN outputTree)
               => reported[1].errs = <<>>

\* the errors of each kind the script validator reported about a source or
\* about the path it designates
MissingAbout(src) ==
    Count(reported[1].errs, LAMBDA e : HasSuffix(e[1], ": local script not found: " \o src))

SyntaxAbout(path) ==
    Count(reported[1].errs, LAMBDA e : HasPrefix(e[1], path \o ": JavaScript syntax error: "))

UnreadableAbout(path) ==
    Count(reported[1].errs, LAMBDA e : HasPrefix(e[1], path \o ": failed to read script: "))

\* the local script references of the page that designate a path
ReferencesTo(path) ==
    Count(RefsOf("script"), LAMBDA r : IsLocal(r) /\ PathOf(r) = path)

\* external scripts are never checked: no error, no lookup, no request
ExternalScriptsUnchecked ==
    /\ requests = <<>>
    /\ \A k \in 1..Len(RefsOf("script")) :
           LET src == RefsOf("script")[k]
           IN  isExternalURL(src) =>
                   /\ \A c \in 1..Len(statCalls) : statCalls[c].ref # src
                   /\ \A e \in 1..Len(reported[1].errs) : ~Contains(reported[1].errs[e][1], src)

\* C26 as stated: every local script that is not a file of the output tree
\* gets a missing-file error, every file that does not parse gets a syntax
\* error, any other script gets nothing, and external scripts are not checked.
ScriptMissingOrSyntaxError ==
    Ran("script") =>
        /\ ExternalScriptsUnchecked
        /\ \A k \in 1..Len(RefsOf("script")) :
               LET src == RefsOf("script")[k]
                   path == PathOf(src)
               IN  IsLocal(src) =>
                       IF path \notin DOMAIN outputTree
                       THEN /\ MissingAbout(src) = Occurrences(src, "script")
                            /\ SyntaxAbout(path) = 0
                       ELSE /\ MissingAbout(src) = 0
                            /\ SyntaxAbout(path) =
                                   IF outputTree[path] = "js" THEN 0 ELSE ReferencesTo(path)

\* C26: for each local script reference the script validator reports a
\* missing-file error when nothing exists at its path, a read error when the
\* path exists but cannot be read as a file, a distinct syntax error when the
\* file is read but does not parse, and nothing otherwise, never two errors
\* for one reference; external scripts are never checked.
ScriptOneErrorByCase ==
    Ran("script") =>
        /\ ExternalScriptsUnchecked
        /\ Len(reported[1].errs) <= Len(RefsOf("script"))
        /\ \A k \in 1..Len(RefsOf("script")) :
               LET src == RefsOf("script")[k]
                   path == PathOf(src)
                   case == IF path \in DOMAIN outputTree
                           THEN IF outputTree[path] = "js" THEN "valid" ELSE "syntax"
                           ELSE IF Stat(outputTree, path) = "ENOENT" THEN "missing"
                           ELSE "unreadable"
               IN  IsLocal(src) =>
                       /\ MissingAbout(src) =
                              IF case = "missing" THEN Occurrences(src, "script") ELSE 0
                       /\ SyntaxAbout(path) = IF case = "syntax" THEN ReferencesTo(path) ELSE 0
                       /\ UnreadableAbout(path) =
                              IF case = "unreadable" THEN ReferencesTo(path) ELSE 0

\* a page with a script that does not parse and a script source that is a
\* directory went through the script validator: one error of each kind
ScriptErrorsWitness ==
    /\ Ran("script")
    /\ RefsOf("script") = <<"/scripts/app.js", "/scripts">>
    /\ "build/scripts/app.js" \in DOMAIN outputTree
    /\ outputTree["build/scripts/app.js"] = "broken js"
    /\ Len(reported[1].errs) = 2
    /\ SyntaxAbout("build/scripts/app.js") = 1
    /\ UnreadableAbout("build/scripts") = 1

Init == InitLinks

Next == NextLinks

Spec == SpecLinks
====
